---- MODULE Spec2Model ----
(***************************************************************************)
(* Model of the arbitrage scanner's exchange service                       *)
(* (src/unnamed/part_000, imported by server.js as exchangeService.js)     *)
(* and of the two read endpoints of src/backend/server.js.                 *)
(*                                                                         *)
(* Node runs one event-loop task at a time.  An action of this model is    *)
(* one such task: the code from the completion of a network call (or a     *)
(* timer) up to the next network call it awaits.                           *)
(***************************************************************************)
EXTENDS Integers, Sequences, FiniteSets, TLC

VARIABLES
  exchangeMarkets,     \* venue -> what its loadMarkets() returns (the environment)
  tickLimit,           \* number of poll invocations the model follows
  discovery,           \* venue -> how its loadMarkets of universe discovery ended
  phase,               \* startMultiSymbolPolling: "init" | "polling" | "aborted"
  allSymbols,          \* the universe kept by startMultiSymbolPolling
  batchSize,           \* SCAN_BATCH_SIZE
  scanIndex,           \* cursor of poll over allSymbols (0-based)
  marketsCache,        \* venue -> Unset | Loaded (the venue's markets object) | Empty ({})
  latestSnapshot,      \* the Snapshot Store: {timestamp, data}
  latestOpportunities, \* the Snapshot Store: {timestamp, items}
  ticks,               \* invocation of poll -> its local state
  nStarted,            \* number of poll invocations made so far
  timerArmed,          \* setInterval(poll, interval) has been called
  now,                 \* the value Date.now() last returned
  emitted,             \* poll invocation -> number of opportunityUpdate events it emitted
  lastEvent,           \* payload of the last opportunityUpdate event
  httpResponse,        \* the last response of a read endpoint
  sc,                  \* call -> a run of safeCall: [pc, func, calls, result]
  engine,              \* a run of the Opportunity Engine: [allData, items]
  fill,                \* a run of estimateFillPrice: [levels, qty, result]
  fetch                \* exchange name -> a run of fetchTradingPairData

vars == <<exchangeMarkets, tickLimit, discovery, phase, allSymbols, batchSize,
          scanIndex, marketsCache, latestSnapshot, latestOpportunities, ticks,
          nStarted, timerArmed, now, emitted, lastEvent, httpResponse, sc, engine,
          fill, fetch>>

\* What no action of the scheduler changes.
environment == <<exchangeMarkets, tickLimit, batchSize, sc, engine, fill, fetch>>

\* The state of the scheduler, the store and the read endpoints.
scheduler == <<discovery, phase, allSymbols, scanIndex, marketsCache, latestSnapshot,
               latestOpportunities, ticks, nStarted, timerArmed, now, emitted,
               lastEvent, httpResponse>>

(***************************************************************************)
(* Bounds of the model.                                                    *)
(***************************************************************************)
NumVenues == 2      \* venues taken from the head of the registry
MaxTicks == 3       \* poll invocations followed by the scan model
MaxClock == 1       \* largest value of the clock
ScanBatchSize == 1  \* SCAN_BATCH_SIZE of the scan model
MaxBatchTicks == 2  \* poll invocations followed by the batch model
WideBatchSize == 2  \* SCAN_BATCH_SIZE of the batch model
MaxCalls == 2       \* concurrent runs of safeCall followed
MaxLevels == 3      \* longest level list handed to estimateFillPrice
MaxUniverse == 4    \* largest universe of the cursor model
MaxCursorBatch == 4 \* largest SCAN_BATCH_SIZE of the cursor model
MaxCursorTicks == 8 \* poll invocations followed by the cursor model

(***************************************************************************)
(* Generic helpers.                                                        *)
(***************************************************************************)
Null == [kind |-> "null"]

Range(s) == {s[i] : i \in 1..Len(s)}

\* A number of milliseconds, as the store and the opportunities hold it (the
\* field is null before the first publication).
Ms(t) == [ms |-> t]

\* A reference to the allData object of poll invocation t.
Ref(t) == [ref |-> t]

\* F(v) with v evaluated once: a local of the code, bound to its value.
Let(v, F(_)) == CHOOSE r \in {F(x) : x \in {v}} : TRUE

Min(a, b) == IF a <= b THEN a ELSE b

\* String.prototype.endsWith on a string held as the sequence of its tokens
\* (a currency code or a separator each).
endsWith(str, suffix) ==
  /\ Len(str) >= Len(suffix)
  /\ SubSeq(str, Len(str) - Len(suffix) + 1, Len(str)) = suffix

USDTSuffix == <<"/", "USDT">>

BTC_USDT == <<"BTC", "/", "USDT">>
ETH_USDT == <<"ETH", "/", "USDT">>
BTC_USDC == <<"BTC", "/", "USDC">>
USDT_DAI == <<"USDT", "/", "DAI">>
BTC_USDT_SWAP == <<"BTC", "/", "USDT", ":", "USDT">>

(***************************************************************************)
(* The venue registry.                                                     *)
(***************************************************************************)
Registry == <<"binance", "kucoin", "gate", "bitget", "mexc", "bybit">>

exchangeNames == SubSeq(Registry, 1, NumVenues)

Venues == Range(exchangeNames)

\* Object.keys(exchanges): the registry order.
exchangesList == exchangeNames

(***************************************************************************)
(* safeCall.  The underlying call's outcome is Ok(value) or a thrown       *)
(* error of some class; safeCall's run is [pc, calls, result].             *)
(***************************************************************************)
Ok(v) == [kind |-> "ok", value |-> v]
RateLimitExceeded == [kind |-> "error", class |-> "RateLimitExceeded"]
NetworkError == [kind |-> "error", class |-> "NetworkError"]

Value(v) == [kind |-> "value", value |-> v]
Thrown(e) == [kind |-> "thrown", class |-> e.class]

Calls == 1..MaxCalls

\* A run of safeCall; failure is the error class the invocation of line 28
\* threw, "none" while it has thrown nothing.
IdleCall ==
  [pc |-> "idle", func |-> "none", calls |-> 0, failure |-> "none", result |-> Null]

\* safeCall entered: func is invoked (line 28).
safeCallEnter(func) == [IdleCall EXCEPT !.pc = "try", !.func = func, !.calls = 1]

\* The retry of line 34 settles: it runs inside the catch block, so its
\* failure leaves safeCall as an exception.
safeCallRetry(st, outcome) ==
  IF outcome.kind = "ok"
  THEN [st EXCEPT !.pc = "returned", !.result = Value(outcome.value)]
  ELSE [st EXCEPT !.pc = "thrown", !.result = Thrown(outcome)]

\* A catch block that waits and retries whatever the error.
safeCallFirstRetriesAll(st, outcome) ==
  IF outcome.kind = "ok"
  THEN [st EXCEPT !.pc = "returned", !.result = Value(outcome.value)]
  ELSE [st EXCEPT !.pc = "backoff", !.failure = outcome.class]

\* The awaited call of line 28 settles with outcome.
safeCallFirst(st, outcome) ==
  IF outcome.kind = "ok"
  THEN [st EXCEPT !.pc = "returned", !.result = Value(outcome.value)]
  ELSE IF outcome.class = "RateLimitExceeded"
       THEN [st EXCEPT !.pc = "backoff", !.failure = outcome.class]
       ELSE [st EXCEPT !.pc = "returned", !.failure = outcome.class, !.result = Null]

\* The 1000 ms timer of line 33 fires and func is invoked again.
safeCallBackoff(st) == [st EXCEPT !.pc = "retry", !.calls = st.calls + 1]

\* safeCall run to its end on the outcomes script[1], script[2] of the
\* underlying call's invocations.
safeCall(script) ==
  LET s1 == safeCallFirst(safeCallEnter("func"), script[1])
  IN  IF s1.pc = "backoff"
      THEN safeCallRetry(safeCallBackoff(s1), script[2])
      ELSE s1

\* The scripts of an underlying call that returns v when it succeeds.
Scripts(v) ==
  {<<Ok(v)>>, <<NetworkError>>, <<RateLimitExceeded, Ok(v)>>,
   <<RateLimitExceeded, NetworkError>>, <<RateLimitExceeded, RateLimitExceeded>>}

\* What the caller of `await safeCall(...)` sees of a finished run: an
\* exception, or the value returned (null included).
settled(run) ==
  [thrown |-> run.pc = "thrown",
   result |-> IF run.pc = "thrown" THEN Null ELSE run.result]

\* The ways `await safeCall(func)` can end for a func that returns v when it
\* succeeds.
Settlements(v) == {settled(safeCall(script)) : script \in Scripts(v)}

(***************************************************************************)
(* Exact rational arithmetic for the prices, amounts and fees (the code    *)
(* computes in IEEE doubles; rounding is not modelled).                    *)
(***************************************************************************)
RECURSIVE GCD(_, _)
GCD(a, b) == IF b = 0 THEN a ELSE GCD(b, a % b)

Abs(x) == IF x < 0 THEN -x ELSE x

\* n/d in lowest terms with a positive denominator (d # 0).
R(n, d) ==
  Let(<<n, d>>, LAMBDA p :
    Let(GCD(Abs(p[1]), Abs(p[2])), LAMBDA g :
      IF p[2] < 0 THEN [n |-> -(p[1] \div g), d |-> -(p[2] \div g)]
      ELSE [n |-> p[1] \div g, d |-> p[2] \div g]))

Zero == [n |-> 0, d |-> 1]

\* The operations reduce by common factors before they multiply, to keep
\* the intermediate integers small.
RAdd(x, y) ==
  Let(<<x, y, GCD(x.d, y.d)>>, LAMBDA p :
    R(p[1].n * (p[2].d \div p[3]) + p[2].n * (p[1].d \div p[3]),
      (p[1].d \div p[3]) * p[2].d))
RSub(x, y) ==
  Let(<<x, y, GCD(x.d, y.d)>>, LAMBDA p :
    R(p[1].n * (p[2].d \div p[3]) - p[2].n * (p[1].d \div p[3]),
      (p[1].d \div p[3]) * p[2].d))
RMul(x, y) ==
  Let(<<x, y, GCD(Abs(x.n), y.d), GCD(Abs(y.n), x.d)>>, LAMBDA p :
    R((p[1].n \div p[3]) * (p[2].n \div p[4]),
      (p[1].d \div p[4]) * (p[2].d \div p[3])))
RDiv(x, y) ==
  Let(<<x, y>>, LAMBDA p :
    IF p[2].n = 0 THEN R(p[1].n * p[2].d, 0)
    ELSE RMul(p[1], IF p[2].n < 0 THEN [n |-> -p[2].d, d |-> -p[2].n]
                    ELSE [n |-> p[2].d, d |-> p[2].n]))
RLt(x, y) ==
  Let(<<x, y, GCD(x.d, y.d)>>, LAMBDA p :
    p[1].n * (p[2].d \div p[3]) < p[2].n * (p[1].d \div p[3]))
RLe(x, y) ==
  Let(<<x, y, GCD(x.d, y.d)>>, LAMBDA p :
    p[1].n * (p[2].d \div p[3]) <= p[2].n * (p[1].d \div p[3]))
RMin(x, y) == Let(<<x, y>>, LAMBDA p : IF RLe(p[1], p[2]) THEN p[1] ELSE p[2])
RMax(x, y) == Let(<<x, y>>, LAMBDA p : IF RLe(p[1], p[2]) THEN p[2] ELSE p[1])
RAbs(x) == Let(x, LAMBDA p : [n |-> Abs(p.n), d |-> p.d])

One == [n |-> 1, d |-> 1]

\* The first k decimals of r/d (0 <= r < d) as an integer, and what is left.
RECURSIVE decimals(_, _, _)
decimals(r, d, k) ==
  IF k = 0 THEN [q |-> 0, r |-> r]
  ELSE Let(decimals(r, d, k - 1), LAMBDA p :
         [q |-> p.q * 10 + ((p.r * 10) \div d), r |-> (p.r * 10) % d])

\* Number(x.toFixed(digits)): x rounded to digits decimals, halves away
\* from zero.
toFixed(x, digits) ==
  Let(x, LAMBDA v :
    Let(decimals(Abs(v.n) % v.d, v.d, digits), LAMBDA p :
      Let(R(p.q + (IF 2 * p.r >= v.d THEN 1 ELSE 0), 10 ^ digits), LAMBDA f :
        R((IF v.n < 0 THEN -1 ELSE 1) * ((Abs(v.n) \div v.d) * f.d + f.n), f.d))))

\* JavaScript truthiness of a number-or-null: null, undefined and 0 are falsy.
Truthy(x) == x # Null /\ x.n # 0

(***************************************************************************)
(* What the venues answer (the environment).                               *)
(***************************************************************************)
NoLimits == [amount |-> [min |-> Null, max |-> Null],
             price |-> [min |-> Null, max |-> Null],
             cost |-> [min |-> Null, max |-> Null]]

Market(symbol, active, spot) ==
  [symbol |-> symbol, active |-> active, spot |-> spot,
   maker |-> R(1, 1000), taker |-> R(1, 1000), limits |-> NoLimits,
   precision |-> [price |-> 2, amount |-> 4]]

\* markets[symbol] of the SDK's markets object, held as the sequence of its
\* values in key order; Null when the key is missing.
marketOf(markets, symbol) ==
  IF \E i \in 1..Len(markets) : markets[i].symbol = symbol
  THEN markets[CHOOSE i \in 1..Len(markets) : markets[i].symbol = symbol]
  ELSE Null

\* The markets the venues of the scan model list: BTC/USDT and ETH/USDT
\* everywhere, ETH/USDT inactive on the third venue of the registry.
ScanMarkets ==
  [v \in Venues |->
     <<Market(BTC_USDT, TRUE, TRUE),
       Market(ETH_USDT, v # Registry[3], TRUE),
       Market(BTC_USDC, TRUE, TRUE)>>]

(***************************************************************************)
(* Symbol Universe Service.                                                *)
(***************************************************************************)
\* The filter of lines 220-223 over Object.keys(markets).
usdtSpotFilter(markets) ==
  LET kept == SelectSeq(markets,
                LAMBDA m : endsWith(m.symbol, USDTSuffix) /\ m.active /\ m.spot)
  IN  [i \in 1..Len(kept) |-> kept[i].symbol]

\* getUSDTSpotSymbols, given how its safeCall(loadMarkets) run ended.
getUSDTSpotSymbols(run) ==
  IF run.pc = "thrown" THEN run.result
  ELSE IF run.result = Null THEN Value(<<>>)
  ELSE Value(usdtSpotFilter(run.result.value))

\* symbolCounts.set(symbol, (symbolCounts.get(symbol) || 0) + 1) on a Map held
\* as the sequence of its entries in insertion order.
mapIncrement(map, symbol) ==
  Let(map, LAMBDA m :
    IF \E i \in 1..Len(m) : m[i].symbol = symbol
    THEN [i \in 1..Len(m) |->
            IF m[i].symbol = symbol
            THEN [m[i] EXCEPT !.count = @ + 1] ELSE m[i]]
    ELSE Append(m, [symbol |-> symbol, count |-> 1]))

RECURSIVE countSymbols(_, _)
countSymbols(map, symbols) ==
  Let(symbols, LAMBDA rest :
    IF rest = <<>> THEN map
    ELSE countSymbols(mapIncrement(map, Head(rest)), Tail(rest)))

\* The loop of lines 230-239 from venue i on; runs: venue -> safeCall run.
RECURSIVE symbolCountsFrom(_, _, _)
symbolCountsFrom(map, i, runs) ==
  IF i > Len(exchangeNames) THEN map
  ELSE Let(<<map, getUSDTSpotSymbols(runs[exchangeNames[i]])>>, LAMBDA p :
         symbolCountsFrom(
           IF p[2].kind = "thrown" THEN p[1]
           ELSE countSymbols(p[1], p[2].value),
           i + 1, runs))

commonFilterAny(map) ==
  LET kept == SelectSeq(map, LAMBDA e : e.count >= 1)
  IN  [i \in 1..Len(kept) |-> kept[i].symbol]

\* Lines 241-243.
commonFilter(map) ==
  LET kept == SelectSeq(map, LAMBDA e : e.count >= 2)
  IN  [i \in 1..Len(kept) |-> kept[i].symbol]

\* A universe that falls back to a built-in symbol when no symbol is common.
getCommonOrDefault(runs, rest) ==
  Let(commonFilter(countSymbols(symbolCountsFrom(<<>>, 1, runs), rest)), LAMBDA common :
    IF common = <<>> THEN <<BTC_USDT>> ELSE common)

\* getCommonUSDTSymbols; runs: venue of the model -> its safeCall run, rest:
\* the symbols the registry venues after those returned, one list after the
\* other.
getCommonUSDTSymbolsAmong(runs, rest) ==
  Let(symbolCountsFrom(<<>>, 1, runs), LAMBDA map :
    commonFilter(countSymbols(map, rest)))

\* getCommonUSDTSymbols on a registry of the venues of the model.
getCommonUSDTSymbols(runs) == getCommonUSDTSymbolsAmong(runs, <<>>)

(***************************************************************************)
(* Pair Fetcher: the PairSnapshot built by fetchTradingPairData.           *)
(***************************************************************************)
OB_LIMIT == 20

Level(p, a) == [price |-> p, amount |-> a]

\* orderBook.bids[0]?.[0] || null
topPrice(side) == IF side # <<>> /\ Truthy(side[1][1]) THEN side[1][1] ELSE Null

\* side.slice(0, 20).map(([p, a]) => ({ price: p, amount: a }))
topLevels(side) ==
  [i \in 1..Min(Len(side), OB_LIMIT) |-> Level(side[i][1], side[i][2])]

\* Lines 157-205.
pairSnapshot(symbol, market, ticker, orderBook) ==
  [symbol |-> symbol,
   price |-> [last |-> ticker.last, bid |-> ticker.bid, ask |-> ticker.ask,
              spread |-> RSub(ticker.ask, ticker.bid),
              volume |-> ticker.baseVolume,
              changePercent |-> ticker.percentage],
   orderbook |-> [bestBid |-> topPrice(orderBook.bids),
                  bestAsk |-> topPrice(orderBook.asks),
                  bids |-> topLevels(orderBook.bids),
                  asks |-> topLevels(orderBook.asks)],
   fees |-> [maker |-> market.maker, taker |-> market.taker,
             withdrawal |-> Null, deposit |-> Zero, network |-> Zero],
   limits |-> [minAmount |-> market.limits.amount.min,
               maxAmount |-> market.limits.amount.max,
               minPrice |-> market.limits.price.min,
               maxPrice |-> market.limits.price.max,
               minCost |-> market.limits.cost.min,
               maxCost |-> market.limits.cost.max],
   precision |-> market.precision]

\* Market checks that test spot before active.
marketErrorSpotFirst(markets, symbol) ==
  LET market == marketOf(markets, symbol)
  IN  IF market = Null THEN "UnknownSymbol"
      ELSE IF ~market.spot THEN "NotSpot"
      ELSE IF ~market.active THEN "Inactive"
      ELSE "none"

\* The error outcome of the market checks of lines 142-145, or "none".
marketError(markets, symbol) ==
  LET market == marketOf(markets, symbol)
  IN  IF market = Null THEN "UnknownSymbol"
      ELSE IF ~market.active THEN "Inactive"
      ELSE IF ~market.spot THEN "NotSpot"
      ELSE "none"

(***************************************************************************)
(* Opportunity Engine.                                                     *)
(***************************************************************************)
TRADE_SIZE_USDT == 25
MIN_RAW_SPREAD_PCT == 0
MIN_TRADE_USDT == 1

NoFill == [effectivePrice |-> Null, filled |-> Zero, slippageAbs |-> Null]

\* A walk that takes every level it reaches whole.
RECURSIVE walkLevelsWhole(_, _, _, _, _)
walkLevelsWhole(levels, i, remaining, cost, filled) ==
  IF i > Len(levels) THEN [cost |-> cost, filled |-> filled]
  ELSE Let([remaining |-> remaining, cost |-> cost, filled |-> filled,
            amount |-> IF Truthy(levels[i].amount) THEN levels[i].amount ELSE Zero,
            price |-> IF Truthy(levels[i].price) THEN levels[i].price ELSE Zero],
           LAMBDA v :
             IF RLe(v.amount, Zero)
             THEN walkLevelsWhole(levels, i + 1, v.remaining, v.cost, v.filled)
             ELSE IF RLe(RSub(v.remaining, v.amount), Zero)
                  THEN [cost |-> RAdd(v.cost, RMul(v.price, v.amount)),
                        filled |-> RAdd(v.filled, v.amount)]
                  ELSE walkLevelsWhole(levels, i + 1, RSub(v.remaining, v.amount),
                                       RAdd(v.cost, RMul(v.price, v.amount)),
                                       RAdd(v.filled, v.amount)))

\* The loop of lines 273-280 from level i on.
RECURSIVE walkLevels(_, _, _, _, _)
walkLevels(levels, i, remaining, cost, filled) ==
  IF i > Len(levels) THEN [cost |-> cost, filled |-> filled]
  ELSE Let([remaining |-> remaining, cost |-> cost, filled |-> filled,
            amount |-> IF Truthy(levels[i].amount) THEN levels[i].amount ELSE Zero,
            price |-> IF Truthy(levels[i].price) THEN levels[i].price ELSE Zero],
           LAMBDA v :
             Let(RMin(v.remaining, v.amount), LAMBDA take :
               IF RLe(take, Zero)
               THEN walkLevels(levels, i + 1, v.remaining, v.cost, v.filled)
               ELSE IF RLe(RSub(v.remaining, take), Zero)
                    THEN [cost |-> RAdd(v.cost, RMul(v.price, take)),
                          filled |-> RAdd(v.filled, take)]
                    ELSE walkLevels(levels, i + 1, RSub(v.remaining, take),
                                    RAdd(v.cost, RMul(v.price, take)),
                                    RAdd(v.filled, take))))

\* An estimate that spreads the cost over the quantity asked for.
estimateFillPriceAsked(levels, qty) ==
  IF levels = <<>> \/ ~Truthy(qty) \/ RLe(qty, Zero) THEN NoFill
  ELSE Let(walkLevels(levels, 1, qty, Zero, Zero), LAMBDA w :
         IF RLe(w.filled, Zero) THEN NoFill
         ELSE Let(RDiv(w.cost, qty), LAMBDA effectivePrice :
                [effectivePrice |-> effectivePrice, filled |-> w.filled,
                 slippageAbs |-> IF levels[1].price # Null
                                 THEN RAbs(RSub(effectivePrice, levels[1].price))
                                 ELSE Null]))

\* Lines 265-287.
estimateFillPrice(levels, qty) ==
  IF levels = <<>> \/ ~Truthy(qty) \/ RLe(qty, Zero) THEN NoFill
  ELSE Let(walkLevels(levels, 1, qty, Zero, Zero), LAMBDA w :
         IF RLe(w.filled, Zero) THEN NoFill
         ELSE Let(RDiv(w.cost, w.filled), LAMBDA effectivePrice :
                [effectivePrice |-> effectivePrice, filled |-> w.filled,
                 slippageAbs |-> IF levels[1].price # Null
                                 THEN RAbs(RSub(effectivePrice, levels[1].price))
                                 ELSE Null]))

\* A liquidity that counts the best level only.
sideLiquidityTop(levels) ==
  IF levels # <<>> /\ Truthy(levels[1].amount) THEN levels[1].amount ELSE Zero

\* Lines 356-357: the reduce over the levels of a side.
sideLiquidity(levels) ==
  LET RECURSIVE sum(_)
      sum(i) == IF i > Len(levels) THEN Zero
                ELSE RAdd(IF Truthy(levels[i].amount) THEN levels[i].amount ELSE Zero,
                          sum(i + 1))
  IN  sum(1)

\* A default that charges a fee where the venue reports none.
orDefaultFee(x) == IF x = Null THEN R(1, 1000) ELSE x


\* x ?? 0 for a taker fee
orZero(x) == IF x = Null THEN Zero ELSE x

\* x || 0
orFalsyZero(x) == IF Truthy(x) THEN x ELSE Zero

\* price?.priceChangePercent of a PairSnapshot's price block.
priceChangePercent(price) ==
  IF "priceChangePercent" \in DOMAIN price THEN price.priceChangePercent ELSE Null

\* A score whose liquidity part is not capped at 1.
confidenceScoreUncapped(slip, buyEffective, availableLiquidity, qtyEff, tradingFeesAbs, grossProfitAbs) ==
  Let([slipScore |-> RMax(Zero, RSub(One, RMin(RDiv(slip, buyEffective), R(2, 100)))),
       liqScore |-> RDiv(availableLiquidity, RMul(qtyEff, R(10, 1))),
       feeScore |-> RMax(Zero, RSub(One, RMin(RDiv(tradingFeesAbs, grossProfitAbs),
                                              R(9, 10))))],
      LAMBDA v : toFixed(RAdd(RAdd(RMul(R(5, 10), v.slipScore),
                                   RMul(R(3, 10), v.liqScore)),
                              RMul(R(2, 10), v.feeScore)), 3))

\* estimates.confidenceScore, lines 404-410.
confidenceScore(slip, buyEffective, availableLiquidity, qtyEff, tradingFeesAbs, grossProfitAbs) ==
  Let([slipScore |-> RMax(Zero, RSub(One, RMin(RDiv(slip, buyEffective), R(2, 100)))),
       liqScore |-> RMin(One, RDiv(availableLiquidity, RMul(qtyEff, R(10, 1)))),
       feeScore |-> RMax(Zero, RSub(One, RMin(RDiv(tradingFeesAbs, grossProfitAbs),
                                              R(9, 10))))],
      LAMBDA v : toFixed(RAdd(RAdd(RMul(R(5, 10), v.slipScore),
                                   RMul(R(3, 10), v.liqScore)),
                              RMul(R(2, 10), v.feeScore)), 3))

\* Math.max(x, 1e-9)
atLeastEpsilon(x) ==
  IF x.n >= (x.d + 10 ^ 9 - 1) \div (10 ^ 9) THEN x ELSE R(1, 10 ^ 9)

\* The risk block, lines 412-417.
riskBlock(buyPrice, sellPrice, slip, qtyEff, availableLiquidity, tradingFeesAbs, grossProfitAbs) ==
  [marketVolatility |-> RAbs(RSub(orFalsyZero(priceChangePercent(buyPrice)),
                                  orFalsyZero(priceChangePercent(sellPrice)))),
   executionRisk |-> toFixed(slip, 8),
   liquidityRisk |->
     toFixed(IF RLt(availableLiquidity, qtyEff) THEN One
             ELSE RMax(Zero, RSub(One, RDiv(availableLiquidity,
                                            RMul(qtyEff, R(5, 1))))), 3),
   feeRisk |-> toFixed(RDiv(tradingFeesAbs, atLeastEpsilon(grossProfitAbs)), 6)]

\* A notional gate that rejects nothing.
belowNotionalNever(notionalBuy) == FALSE

\* Line 340: notionalBuy < minTradeUSDT.
belowNotional(notionalBuy) == RLt(notionalBuy, R(MIN_TRADE_USDT, 1))

\* A spread without its sign.
rawSpreadSize(buyEffective, sellEffective) == RAbs(RSub(sellEffective, buyEffective))

\* Line 336.
rawSpread(buyEffective, sellEffective) == RSub(sellEffective, buyEffective)

\* A push that also asks for a positive net profit.
pushedIfProfitable(opportunity, limitsOk) ==
  IF limitsOk /\ RLt(Zero, opportunity.netProfitAbs) THEN <<opportunity>> ELSE <<>>

\* Lines 426-430: what items.push adds to items.
pushed(opportunity, limitsOk) == IF limitsOk THEN <<opportunity>> ELSE <<>>

\* A pass of the inner loop that pushes nothing: counter is the debug counter
\* it increments after pairsChecked, "skipped" when it leaves at line 314,
\* before pairsChecked++.
Dropped(counter) == [counter |-> counter, pushed |-> <<>>]

\* The body of the inner loop, lines 310-430, for venues buyEx, sellEx that
\* passed line 309: the sequence of the opportunities it pushes (none or one)
\* and the debug counter it increments after pairsChecked ("none" on a push).
pairOutcome(symbol, perExchange, buyEx, sellEx, tradeSizeUSDT, clock) ==
  IF buyEx \notin DOMAIN perExchange \/ sellEx \notin DOMAIN perExchange
  THEN Dropped("skipped")
  ELSE IF "error" \in DOMAIN perExchange[buyEx] \/ "error" \in DOMAIN perExchange[sellEx]
  THEN Dropped("skipped")
  ELSE
  LET buyData == perExchange[buyEx]
      sellData == perExchange[sellEx]
      asks == buyData.orderbook.asks
      bids == sellData.orderbook.bids
      buyAsk == IF asks # <<>> THEN asks[1].price ELSE Null
      sellBid == IF bids # <<>> THEN bids[1].price ELSE Null
  IN
  IF ~Truthy(buyAsk) \/ ~Truthy(sellBid) THEN Dropped("pairsMissingOB")
  ELSE
  Let([buy |-> estimateFillPrice(asks, RDiv(R(tradeSizeUSDT, 1), buyAsk)),
       sell |-> estimateFillPrice(bids, RDiv(R(tradeSizeUSDT, 1), buyAsk))],
      LAMBDA fills :
  LET buyFill == fills.buy
      sellFill == fills.sell
      qtyEff == RMin(buyFill.filled, sellFill.filled)
      buyEffective == buyFill.effectivePrice
      sellEffective == sellFill.effectivePrice
  IN
  IF RLe(qtyEff, Zero) THEN Dropped("pairsInsufficientFill")
  ELSE IF ~Truthy(buyEffective) \/ ~Truthy(sellEffective) THEN Dropped("pairsMissingOB")
  ELSE
  LET spreadAbs == rawSpread(buyEffective, sellEffective)
      spreadPct == RMul(RDiv(spreadAbs, buyEffective), R(100, 1))
      notionalBuy == RMul(buyEffective, qtyEff)
      notionalSell == RMul(sellEffective, qtyEff)
      takerBuy == orZero(buyData.fees.taker)
      takerSell == orZero(sellData.fees.taker)
      tradingFeesAbs == RAdd(RMul(RMul(qtyEff, buyEffective), takerBuy),
                             RMul(RMul(qtyEff, sellEffective), takerSell))
      networkFeesAbs == Zero
      grossProfitAbs == RMul(spreadAbs, qtyEff)
      netProfitAbs == RSub(grossProfitAbs, RAdd(tradingFeesAbs, networkFeesAbs))
      netProfitPct == RMul(RDiv(netProfitAbs, RMul(buyEffective, qtyEff)), R(100, 1))
      buyLiquidity == sideLiquidity(asks)
      sellLiquidity == sideLiquidity(bids)
      availableLiquidity == RMin(buyLiquidity, sellLiquidity)
      slip == RAdd(orFalsyZero(buyFill.slippageAbs), orFalsyZero(sellFill.slippageAbs))
      bl == buyData.limits
      sl == sellData.limits
      minAmtOk == /\ (~Truthy(bl.minAmount) \/ RLe(bl.minAmount, qtyEff))
                  /\ (~Truthy(sl.minAmount) \/ RLe(sl.minAmount, qtyEff))
      maxAmtOk == /\ (~Truthy(bl.maxAmount) \/ RLe(qtyEff, bl.maxAmount))
                  /\ (~Truthy(sl.maxAmount) \/ RLe(qtyEff, sl.maxAmount))
      minCostOk == /\ (~Truthy(bl.minCost) \/ RLe(bl.minCost, notionalBuy))
                   /\ (~Truthy(sl.minCost) \/ RLe(sl.minCost, notionalSell))
      maxCostOk == /\ (~Truthy(bl.maxCost) \/ RLe(notionalBuy, bl.maxCost))
                   /\ (~Truthy(sl.maxCost) \/ RLe(notionalSell, sl.maxCost))
      opportunity ==
        [symbol |-> symbol, buyExchange |-> buyEx, sellExchange |-> sellEx,
         buyPrice |-> buyAsk, sellPrice |-> sellBid,
         buyEffective |-> buyEffective, sellEffective |-> sellEffective,
         quantity |-> qtyEff,
         volume24h |-> RMin(orZero(buyData.price.volume), orZero(sellData.price.volume)),
         spreadAbs |-> spreadAbs, spreadPct |-> spreadPct,
         fees |-> [tradingAbs |-> tradingFeesAbs, networkAbs |-> networkFeesAbs,
                   takerBuy |-> takerBuy, takerSell |-> takerSell],
         slippage |-> [buyAbs |-> buyFill.slippageAbs, sellAbs |-> sellFill.slippageAbs],
         netProfitAbs |-> netProfitAbs, netProfitPct |-> netProfitPct,
         liquidity |-> availableLiquidity,
         buyLiquidity |-> buyLiquidity, sellLiquidity |-> sellLiquidity,
         limits |-> [buy |-> [minAmount |-> bl.minAmount, maxAmount |-> bl.maxAmount,
                              minCost |-> bl.minCost, maxCost |-> bl.maxCost],
                     sell |-> [minAmount |-> sl.minAmount, maxAmount |-> sl.maxAmount,
                               minCost |-> sl.minCost, maxCost |-> sl.maxCost]],
         estimates |-> [confidenceScore |->
                          confidenceScore(slip, buyEffective, availableLiquidity,
                                          qtyEff, tradingFeesAbs, grossProfitAbs)],
         risk |-> riskBlock(buyData.price, sellData.price, slip, qtyEff,
                            availableLiquidity, tradingFeesAbs, grossProfitAbs),
         ts |-> Ms(clock)]
  IN
  IF RLe(spreadPct, R(MIN_RAW_SPREAD_PCT, 1)) THEN Dropped("pairsBelowSpread")
  ELSE IF belowNotional(notionalBuy) THEN Dropped("pairsBelowNotional")
  ELSE Let(pushed(opportunity, minAmtOk /\ maxAmtOk /\ minCostOk /\ maxCostOk),
           LAMBDA items :
             [counter |-> IF Len(items) = 0 THEN "pairsLimitsFail" ELSE "none",
              pushed |-> items]))

\* What a pass of the inner loop pushes.
pairOpportunity(symbol, perExchange, buyEx, sellEx, tradeSizeUSDT, clock) ==
  pairOutcome(symbol, perExchange, buyEx, sellEx, tradeSizeUSDT, clock).pushed

\* A pairing loop without the test of line 309.
venuePairsWithSelf == 
  LET n == Len(exchangesList)
  IN  [k \in 1..(n * n) |-> <<exchangesList[((k - 1) \div n) + 1],
                               exchangesList[((k - 1) % n) + 1]>>]

\* A pairing loop that takes every two venues once, the first as the buyer.
venuePairsUnordered ==
  LET n == Len(exchangesList)
      all == [k \in 1..(n * n) |-> <<((k - 1) \div n) + 1, ((k - 1) % n) + 1>>]
      kept == SelectSeq(all, LAMBDA ij : ij[1] < ij[2])
  IN  [k \in 1..Len(kept) |-> <<exchangesList[kept[k][1]], exchangesList[kept[k][2]]>>]

\* The (buyEx, sellEx) visited by the loops of lines 307-311, in order.
venuePairs ==
  LET n == Len(exchangesList)
      all == [k \in 1..(n * n) |-> <<((k - 1) \div n) + 1, ((k - 1) % n) + 1>>]
      kept == SelectSeq(all, LAMBDA ij : ij[1] # ij[2])
  IN  [k \in 1..Len(kept) |-> <<exchangesList[kept[k][1]], exchangesList[kept[k][2]]>>]

\* An insertion that puts an opportunity before those of equal spreadPct.
RECURSIVE insertDescTies(_, _)
insertDescTies(sorted, o) ==
  IF sorted = <<>> THEN <<o>>
  ELSE IF RLe(Head(sorted).spreadPct, o.spreadPct) THEN <<o>> \o sorted
  ELSE <<Head(sorted)>> \o insertDescTies(Tail(sorted), o)

\* items.sort((a, b) => b.spreadPct - a.spreadPct): a stable sort.
RECURSIVE insertDesc(_, _)
insertDesc(sorted, o) ==
  IF sorted = <<>> THEN <<o>>
  ELSE IF RLt(Head(sorted).spreadPct, o.spreadPct) THEN <<o>> \o sorted
  ELSE <<Head(sorted)>> \o insertDesc(Tail(sorted), o)

RECURSIVE sortBySpread(_)
sortBySpread(items) ==
  Let(items, LAMBDA unsorted :
    IF unsorted = <<>> THEN <<>>
    ELSE Let(sortBySpread(SubSeq(unsorted, 1, Len(unsorted) - 1)), LAMBDA sorted :
           insertDesc(sorted, unsorted[Len(unsorted)])))

\* Lines 290-443; allData is the sequence of its entries in key order.
computeOpportunitiesFromAllData(allData, tradeSizeUSDT, clock) ==
  LET RECURSIVE pairsFrom(_, _)
      pairsFrom(e, k) ==
        IF k > Len(venuePairs) THEN <<>>
        ELSE pairOpportunity(e.symbol, e.data, venuePairs[k][1], venuePairs[k][2],
                             tradeSizeUSDT, clock)
             \o pairsFrom(e, k + 1)
      RECURSIVE symbolsFrom(_)
      symbolsFrom(s) ==
        IF s > Len(allData) THEN <<>>
        ELSE pairsFrom(allData[s], 1) \o symbolsFrom(s + 1)
  IN  sortBySpread(symbolsFrom(1))

\* Lines 296-302: the debug counters before the loops.
NoCounters ==
  [pairsChecked |-> 0, pairsMissingOB |-> 0, pairsInsufficientFill |-> 0,
   pairsBelowSpread |-> 0, pairsBelowNotional |-> 0, pairsLimitsFail |-> 0]

\* A count with pairsChecked++ ahead of the test of line 314.
countedEarly(counters, counter) ==
  IF counter \in {"skipped", "none"} THEN [counters EXCEPT !.pairsChecked = @ + 1]
  ELSE [counters EXCEPT !.pairsChecked = @ + 1, ![counter] = @ + 1]

\* The counters after a pass of the inner loop: pairsChecked++ of line 316
\* unless the pass left at line 314, and the ++ of the line it left at.
counted(counters, counter) ==
  IF counter = "skipped" THEN counters
  ELSE IF counter = "none" THEN [counters EXCEPT !.pairsChecked = @ + 1]
  ELSE [counters EXCEPT !.pairsChecked = @ + 1, ![counter] = @ + 1]

\* The counters of the [ArbDebug] line (lines 438-440) of a run on allData.
debugCounters(allData, tradeSizeUSDT, clock) ==
  LET RECURSIVE pairsFrom(_, _, _)
      pairsFrom(counters, e, k) ==
        IF k > Len(venuePairs) THEN counters
        ELSE pairsFrom(counted(counters,
                               pairOutcome(e.symbol, e.data, venuePairs[k][1],
                                           venuePairs[k][2], tradeSizeUSDT,
                                           clock).counter),
                       e, k + 1)
      RECURSIVE symbolsFrom(_, _)
      symbolsFrom(counters, s) ==
        IF s > Len(allData) THEN counters
        ELSE symbolsFrom(pairsFrom(counters, allData[s], 1), s + 1)
  IN  symbolsFrom(NoCounters, 1)

(***************************************************************************)
(* Scan Scheduler: startMultiSymbolPolling and poll.                       *)
(***************************************************************************)
\* Object.keys(exchanges) when SCAN_EXCHANGES is not set (line 466).
scanExchanges == exchangeNames

Ticks == 1..MaxTicks

\* An entry of marketsCache: missing, the markets object the venue's
\* loadMarkets returned, or the {} of line 48.
Unset == "unset"
Loaded == "loaded"
Empty == "empty"

cachedMarkets(entry, v) == IF entry = Loaded THEN exchangeMarkets[v] ELSE <<>>

EmptyMap == [x \in {} |-> Null]

\* The ticker and the order book a venue answers with in the scan model.
tickerOf(v) ==
  [last |-> R(100, 1), bid |-> R(99, 1), ask |-> R(101, 1),
   baseVolume |-> R(1000, 1),
   percentage |-> IF v = Registry[1] THEN R(1, 1) ELSE R(3, 1)]

orderBookOf(v) ==
  IF v = Registry[1]
  THEN [bids |-> <<<<R(99, 1), R(1, 1)>>>>, asks |-> <<<<R(100, 1), R(1, 1)>>>>]
  ELSE [bids |-> <<<<R(101, 1), R(1, 1)>>>>, asks |-> <<<<R(102, 1), R(1, 1)>>>>]

\* The locals of one invocation of poll.  si, vi: the symbol of the batch and
\* the venue of scanExchanges whose fetchTradingPairData call is next or
\* pending; await: the adapter call that call is suspended in; market, ticker:
\* its locals of lines 142 and 148; failed: the (si, vi) whose call returned an
\* error outcome or threw (what lines 494-500 saw, and logged, so far).
IdleTick ==
  [pc |-> "idle", start |-> 0, end |-> 0, si |-> 1, vi |-> 1, await |-> "none",
   market |-> Null, ticker |-> Null, symbolData |-> EmptyMap, allData |-> <<>>,
   failed |-> {}]

batchOf(symbols, st) == SubSeq(symbols, st.start + 1, st.end)

\* Lines 477-488: the batch is taken and the cursor advanced.
pollEnter(index, len) ==
  LET end == Min(index + batchSize, len)
  IN  [IdleTick EXCEPT !.pc = "running", !.start = index, !.end = end]

\* A cursor that wraps only once it has gone past the end.
scanIndexLateWrap(index, len) ==
  IF Min(index + batchSize, len) > len THEN 0 ELSE Min(index + batchSize, len)

\* A cursor that never moves.
scanIndexStuck(index, len) == index

\* Lines 480-484.
scanIndexAfter(index, len) ==
  IF Min(index + batchSize, len) >= len THEN 0 ELSE Min(index + batchSize, len)

\* A poll whose promise was rejected: nothing of it runs any more.
skipPairRejects(st) == [st EXCEPT !.pc = "rejected", !.await = "none"]

\* A loop that stores the error outcome of a call under the venue.
skipPairStoresError(st) == [st EXCEPT !.vi = @ + 1, !.market = Null, !.ticker = Null, !.failed = @ \cup {<<st.si, st.vi>>}, !.symbolData = (scanExchanges[st.vi] :> [error |-> "failed"]) @@ @]

\* Lines 494-500: a fetchTradingPairData call that returned an error outcome
\* or threw stores nothing, and the loop goes on to the next venue.
skipPair(st) == [st EXCEPT !.vi = @ + 1, !.market = Null, !.ticker = Null, !.failed = @ \cup {<<st.si, st.vi>>}]

\* Lines 502-504: allData once the venues of a symbol have been asked.
allDataAfter(allData, symbol, symbolData) ==
  IF DOMAIN symbolData # {}
  THEN Append(allData, [symbol |-> symbol, data |-> symbolData])
  ELSE allData

\* The loops of lines 489-505 from the call for (si, vi) on, up to the next
\* adapter call that has to be awaited, or to the end of the loops.
RECURSIVE runLoop(_, _, _)
runLoop(cache, locals, batch) ==
  Let(locals, LAMBDA st :
    IF st.pc # "running" THEN st
    ELSE IF st.si > Len(batch) THEN [st EXCEPT !.await = "publish"]
    ELSE IF st.vi > Len(scanExchanges)
    THEN runLoop(cache,
                 [st EXCEPT !.allData = allDataAfter(@, batch[st.si], st.symbolData),
                            !.symbolData = EmptyMap,
                            !.si = @ + 1, !.vi = 1],
                 batch)
    ELSE LET v == scanExchanges[st.vi]
         IN  IF cache[v] = Unset THEN [st EXCEPT !.await = "loadMarkets"]
             ELSE IF marketError(cachedMarkets(cache[v], v), batch[st.si]) # "none"
             THEN runLoop(cache, skipPair(st), batch)
             ELSE [st EXCEPT !.await = "fetchTicker",
                             !.market = marketOf(cachedMarkets(cache[v], v),
                                                 batch[st.si])])

\* Date.now() on a clock that does not run backwards.
ClockReads(from) == {c \in from..(from + 1) : c <= MaxClock}

\* A store written as soon as allData holds a symbol.
snapshotEarly(t, st, old, clock) ==
  IF st.await = "publish" \/ st.allData # <<>>
  THEN [timestamp |-> Ms(clock), data |-> Ref(t)] ELSE old

\* A snapshot stamped with poll's local `start`.
snapshotStartStamp(t, st, old, clock) ==
  IF st.await = "publish" THEN [timestamp |-> Ms(st.start), data |-> Ref(t)] ELSE old

\* latestSnapshot after a task of poll invocation t that leaves it in st
\* (line 506 when the loops are over).  data is a reference to t's allData
\* object.
snapshotAfter(t, st, old, clock) ==
  IF st.await = "publish" THEN [timestamp |-> Ms(clock), data |-> Ref(t)] ELSE old

\* An event that carries the opportunities the previous set did not hold.
opportunityUpdateDiff(opps, previous) ==
  SelectSeq(opps, LAMBDA o : \A i \in 1..Len(previous.items) : previous.items[i] # o)

\* The payload of io.emit('opportunityUpdate', opps), line 511.
opportunityUpdate(opps, previous) == opps

\* A store that keeps the last list that was not empty.
opportunitiesKept(opps, old, clock) ==
  [timestamp |-> Ms(clock), items |-> IF opps = <<>> THEN old.items ELSE opps]

\* A store that adds the list to the one it holds.
opportunitiesMerged(opps, old, clock) ==
  [timestamp |-> Ms(clock), items |-> old.items \o opps]

\* latestOpportunities after line 508.
opportunitiesAfter(opps, old, clock) == [timestamp |-> Ms(clock), items |-> opps]

\* The engine's list with the time te in the ts of its opportunities.
stamped(items, te) == [i \in 1..Len(items) |-> [items[i] EXCEPT !.ts = Ms(te)]]

\* The allData object behind a reference.
allDataAt(tk, r) == tk[r.ref].allData

\* An allData object no reference leads to is reclaimed.
collect(tk, snapshot) ==
  [t \in Ticks |->
     IF tk[t].pc = "done" /\ snapshot.data # Ref(t)
     THEN [tk[t] EXCEPT !.allData = <<>>, !.failed = {}] ELSE tk[t]]

\* The rest of a task of poll invocation t: it is at the call for (si, vi)
\* with locals st0, the markets cache is cache and the universe is symbols.
\* Lines 489-511.
Proceed(t, st0, cache, symbols) ==
  \E st \in {runLoop(cache, st0, batchOf(symbols, st0))} :
      /\ marketsCache' = cache
      /\ httpResponse' = Null
      /\ IF st.await = "publish"
         THEN \* line 507, up to the value Date.now() returns inside the engine
              \E computed \in {computeOpportunitiesFromAllData(st.allData,
                                                               TRADE_SIZE_USDT, now)} :
              \E now1 \in ClockReads(now) : \E now2 \in ClockReads(now1) :
              \E te \in {now1, now2} :
                LET opps == stamped(computed, te)
                    snap == snapshotAfter(t, st, latestSnapshot, now1)
                IN  /\ latestSnapshot' = snap
                    /\ latestOpportunities' =
                         opportunitiesAfter(opps, latestOpportunities, now2)
                    /\ emitted' = [emitted EXCEPT ![t] = @ + 1]
                    /\ lastEvent' = [event |-> "opportunityUpdate",
                                     payload |-> opportunityUpdate(opps,
                                                                   latestOpportunities)]
                    /\ now' = now2
                    /\ ticks' = collect([ticks EXCEPT ![t] =
                                           [st EXCEPT !.pc = "done", !.await = "none"]],
                                        snap)
                    /\ timerArmed' = (timerArmed \/ t = 1)
         ELSE /\ latestSnapshot' = snapshotAfter(t, st, latestSnapshot, now)
              /\ ticks' = [ticks EXCEPT ![t] = st]
              /\ UNCHANGED <<latestOpportunities, emitted, lastEvent, now, timerArmed>>

\* The scripts of the loadMarkets calls of universe discovery, one per venue.
DiscoveryScripts ==
  {f \in [Venues -> UNION {Scripts(exchangeMarkets[v]) : v \in Venues}] :
     \A v \in Venues : f[v] \in Scripts(exchangeMarkets[v])}

\* startMultiSymbolPolling up to the first adapter call of the first poll.
\* The awaits of universe discovery touch no shared state.  rest: the symbols
\* returned by the registry venues that SCAN_EXCHANGES (line 465) leaves out
\* of the scan.
startMultiSymbolPollingAmong(rest) ==
  /\ phase = "init"
  /\ \E scripts \in DiscoveryScripts :
       \E runs \in {[v \in Venues |-> safeCall(scripts[v])]} :
       \E symbols \in {getCommonUSDTSymbolsAmong(runs, rest)} :
           /\ discovery' = [v \in Venues |->
                               IF runs[v].pc = "thrown" THEN "thrown"
                               ELSE runs[v].result.kind]
           /\ IF symbols = <<>>
              THEN /\ phase' = "aborted"
                   /\ httpResponse' = Null
                   /\ UNCHANGED <<allSymbols, scanIndex, marketsCache, latestSnapshot,
                                  latestOpportunities, ticks, nStarted, timerArmed,
                                  now, emitted, lastEvent>>
              ELSE /\ phase' = "polling"
                   /\ allSymbols' = symbols
                   /\ scanIndex' = scanIndexAfter(0, Len(symbols))
                   /\ nStarted' = 1
                   /\ Proceed(1, pollEnter(0, Len(symbols)), marketsCache, symbols)
  /\ UNCHANGED environment

\* startMultiSymbolPolling when every venue of the registry is scanned.
startMultiSymbolPolling == startMultiSymbolPollingAmong(<<>>)

\* The interval timer of line 521 fires: poll is invoked again, whether or
\* not earlier invocations have finished.
TimerFires ==
  /\ timerArmed
  /\ nStarted < tickLimit
  /\ nStarted' = nStarted + 1
  /\ scanIndex' = scanIndexAfter(scanIndex, Len(allSymbols))
  /\ Proceed(nStarted + 1, pollEnter(scanIndex, Len(allSymbols)), marketsCache,
             allSymbols)
  /\ UNCHANGED <<environment, discovery, phase, allSymbols>>

\* The safeCall(loadMarkets) of loadMarketsCached (line 47) settles.
LoadMarketsSettles(t) ==
  /\ ticks[t].pc = "running" /\ ticks[t].await = "loadMarkets"
  /\ LET v == scanExchanges[ticks[t].vi]
     IN  \E markets \in Settlements(exchangeMarkets[v]) :
           IF markets.thrown
           THEN Proceed(t, skipPair(ticks[t]), marketsCache, allSymbols)
           ELSE Proceed(t, ticks[t],
                        [marketsCache EXCEPT ![v] =
                           IF markets.result = Null THEN Empty ELSE Loaded],
                        allSymbols)
  /\ UNCHANGED <<environment, discovery, phase, allSymbols, scanIndex, nStarted>>

\* The safeCall(fetchTicker) of line 148 settles.
FetchTickerSettles(t) ==
  /\ ticks[t].pc = "running" /\ ticks[t].await = "fetchTicker"
  /\ LET v == scanExchanges[ticks[t].vi]
     IN  \E ticker \in Settlements(tickerOf(v)) :
           IF ticker.thrown \/ ticker.result = Null
           THEN Proceed(t, skipPair(ticks[t]), marketsCache, allSymbols)
           ELSE /\ ticks' = [ticks EXCEPT ![t] = [@ EXCEPT !.await = "fetchOrderBook",
                                                           !.ticker = ticker.result.value]]
                /\ httpResponse' = Null
                /\ UNCHANGED <<marketsCache, latestSnapshot, latestOpportunities,
                               emitted, lastEvent, now, timerArmed>>
  /\ UNCHANGED <<environment, discovery, phase, allSymbols, scanIndex, nStarted>>

\* The safeCall(fetchOrderBook) of line 153 settles.
FetchOrderBookSettles(t) ==
  /\ ticks[t].pc = "running" /\ ticks[t].await = "fetchOrderBook"
  /\ LET st == ticks[t]
         v == scanExchanges[st.vi]
         symbol == SubSeq(allSymbols, st.start + 1, st.end)[st.si]
     IN  \E orderBook \in Settlements(orderBookOf(v)) :
           LET data == pairSnapshot(symbol, st.market, st.ticker, orderBook.result.value)
           IN  IF orderBook.thrown \/ orderBook.result = Null
               THEN Proceed(t, skipPair(st), marketsCache, allSymbols)
               ELSE Proceed(t, [st EXCEPT !.vi = @ + 1, !.market = Null,
                                          !.ticker = Null,
                                          !.symbolData = (v :> data) @@ @],
                            marketsCache, allSymbols)
  /\ UNCHANGED <<environment, discovery, phase, allSymbols, scanIndex, nStarted>>

(***************************************************************************)
(* Pair Fetcher: one call of fetchTradingPairData from start to end.       *)
(***************************************************************************)
\* An exchange name that is not a key of `exchanges`.
Unlisted == "coinbase"

FetchNames == Venues \cup {Unlisted}

\* loadMarketsCached for a venue of the registry whose cache entry is entry,
\* `await safeCall(loadMarkets)` ending as markets if it is made: the entry
\* after, the value returned and the adapter calls made.  Line 48 stores
\* `markets || {}`, so the value returned is an object.
loadMarketsCached(v, entry, markets) ==
  IF entry # Unset
  THEN [thrown |-> FALSE, entry |-> entry, calls |-> <<>>,
        returned |-> Ok(cachedMarkets(entry, v))]
  ELSE IF markets.thrown
  THEN [thrown |-> TRUE, entry |-> Unset, calls |-> <<"loadMarkets">>,
        returned |-> Null]
  ELSE LET after == IF markets.result = Null THEN Empty ELSE Loaded
       IN  [thrown |-> FALSE, entry |-> after, calls |-> <<"loadMarkets">>,
            returned |-> Ok(cachedMarkets(after, v))]

FetchThrows(calls, entry) ==
  [calls |-> calls, cache |-> entry, thrown |-> TRUE, returned |-> Null]

FetchReturns(calls, entry, data) ==
  [calls |-> calls, cache |-> entry, thrown |-> FALSE, returned |-> data]

\* Lines 133-205.
fetchTradingPairData(exchangeName, symbol, entry, answers) ==
  IF exchangeName \notin Venues
  THEN FetchReturns(<<>>, entry, [error |-> "ExchangeNotSupported"])
  ELSE
  LET load == loadMarketsCached(exchangeName, entry, answers.markets)
      withTicker == load.calls \o <<"fetchTicker">>
      withOrderBook == withTicker \o <<"fetchOrderBook">>
  IN
  IF load.thrown THEN FetchThrows(load.calls, load.entry)
  ELSE IF load.returned = Null
  THEN FetchReturns(load.calls, load.entry, [error |-> "MarketsUnavailable"])
  ELSE IF marketError(load.returned.value, symbol) # "none"
  THEN FetchReturns(load.calls, load.entry,
                    [error |-> marketError(load.returned.value, symbol)])
  ELSE IF answers.ticker.thrown THEN FetchThrows(withTicker, load.entry)
  ELSE IF answers.ticker.result = Null
  THEN FetchReturns(withTicker, load.entry, [error |-> "TickerUnavailable"])
  ELSE IF answers.orderBook.thrown THEN FetchThrows(withOrderBook, load.entry)
  ELSE IF answers.orderBook.result = Null
  THEN FetchReturns(withOrderBook, load.entry, [error |-> "OrderBookUnavailable"])
  ELSE FetchReturns(withOrderBook, load.entry,
                    pairSnapshot(symbol, marketOf(load.returned.value, symbol),
                                 answers.ticker.result.value,
                                 answers.orderBook.result.value))

\* A store that keeps whatever object the call returned.
keepsAll(data) == data # Null

\* The test of line 494 on the object a call returned (its price and
\* orderbook blocks are objects: truthy when present).
keeps(data) ==
  /\ data # Null
  /\ "error" \notin DOMAIN data
  /\ "orderbook" \in DOMAIN data
  /\ "price" \in DOMAIN data

\* Lines 492-500: symbolData after the call for venue name ended as run.
symbolDataAfter(symbolData, name, run) ==
  IF ~run.thrown /\ keeps(run.returned)
  THEN (name :> run.returned) @@ symbolData
  ELSE symbolData

(***************************************************************************)
(* Distribution Surface: the read endpoints of server.js.                  *)
(***************************************************************************)
\* GET /api/markets/snapshot on the value getLatestSnapshot() returns.
snapshotResponseNonEmpty(snap, tk) ==
  IF snap.data = Null \/ allDataAt(tk, snap.data) = <<>>
  THEN [endpoint |-> "snapshot", status |-> 503, body |-> "Snapshot not ready yet"]
  ELSE [endpoint |-> "snapshot", status |-> 200,
        body |-> [timestamp |-> snap.timestamp, data |-> allDataAt(tk, snap.data)]]

snapshotResponse(snap, tk) ==
  IF snap.data = Null
  THEN [endpoint |-> "snapshot", status |-> 503, body |-> "Snapshot not ready yet"]
  ELSE [endpoint |-> "snapshot", status |-> 200,
        body |-> [timestamp |-> snap.timestamp, data |-> allDataAt(tk, snap.data)]]

\* Array.isArray: the store never holds anything but a sequence there.
isArray(x) == Len(x) >= 0

\* GET /api/opportunities on the value getLatestOpportunities() returns.
opportunitiesResponse(opps) ==
  IF opps = Null \/ ~isArray(opps.items)
  THEN [endpoint |-> "opportunities", status |-> 503,
        body |-> "Opportunities not ready yet"]
  ELSE [endpoint |-> "opportunities", status |-> 200, body |-> opps]

GetSnapshot ==
  /\ httpResponse' = snapshotResponse(latestSnapshot, ticks)
  /\ UNCHANGED <<environment, discovery, phase, allSymbols, scanIndex, marketsCache,
                 latestSnapshot, latestOpportunities, ticks, nStarted, timerArmed,
                 now, emitted, lastEvent>>

GetOpportunities ==
  /\ httpResponse' = opportunitiesResponse(latestOpportunities)
  /\ UNCHANGED <<environment, discovery, phase, allSymbols, scanIndex, marketsCache,
                 latestSnapshot, latestOpportunities, ticks, nStarted, timerArmed,
                 now, emitted, lastEvent>>

(***************************************************************************)
(* The scan model: the service from server start on.                       *)
(***************************************************************************)
InitStore ==
  /\ latestSnapshot = [timestamp |-> Null, data |-> Null]
  /\ latestOpportunities = [timestamp |-> Null, items |-> <<>>]

InitScheduler ==
  /\ phase = "init"
  /\ discovery = [v \in Venues |-> "pending"]
  /\ allSymbols = <<>>
  /\ scanIndex = 0
  /\ marketsCache = [v \in Venues |-> Unset]
  /\ ticks = [t \in Ticks |-> IdleTick]
  /\ nStarted = 0
  /\ timerArmed = FALSE
  /\ now = 0
  /\ emitted = [t \in Ticks |-> 0]
  /\ lastEvent = Null
  /\ httpResponse = Null

IdleFill == [pc |-> "idle", levels |-> <<>>, qty |-> Zero, result |-> NoFill]

\* A run of fetchTradingPairData: the symbol asked for, the cache entry of
\* the venue when it starts (entry) and when it ends (cache), how the adapter
\* calls it may make end (answers), the adapter calls it made (calls), whether
\* it threw, what it returned, and what lines 493-500 of poll leave, in an
\* empty symbolData, of it.
IdleFetch ==
  [pc |-> "idle", symbol |-> <<>>, entry |-> Unset, cache |-> Unset,
   answers |-> Null, calls |-> <<>>, thrown |-> FALSE, returned |-> Null,
   symbolData |-> EmptyMap]

InitIdle ==
  /\ sc = [c \in Calls |-> IdleCall]
  /\ engine = [pc |-> "input", allData |-> <<>>, items |-> <<>>]
  /\ fill = IdleFill
  /\ fetch = [name \in FetchNames |-> IdleFetch]

Init ==
  /\ exchangeMarkets = ScanMarkets
  /\ tickLimit = MaxTicks
  /\ batchSize = ScanBatchSize
  /\ InitStore
  /\ InitScheduler
  /\ InitIdle

Next ==
  \/ startMultiSymbolPolling
  \/ TimerFires
  \/ \E t \in Ticks : LoadMarketsSettles(t)
  \/ \E t \in Ticks : FetchTickerSettles(t)
  \/ \E t \in Ticks : FetchOrderBookSettles(t)
  \/ GetSnapshot
  \/ GetOpportunities

Spec == Init /\ [][Next]_vars

\* Every adapter call eventually returns or throws.
AdapterCallsSettle ==
  \A t \in Ticks : /\ WF_vars(LoadMarketsSettles(t))
                   /\ WF_vars(FetchTickerSettles(t))
                   /\ WF_vars(FetchOrderBookSettles(t))

SpecLive == Init /\ [][Next]_vars /\ AdapterCallsSettle

(***************************************************************************)
(* The batch model: the same service with two symbols to a batch.          *)
(***************************************************************************)
InitBatch ==
  /\ exchangeMarkets = ScanMarkets
  /\ tickLimit = MaxBatchTicks
  /\ batchSize = WideBatchSize
  /\ InitStore
  /\ InitScheduler
  /\ InitIdle

SpecBatch == InitBatch /\ [][Next]_vars

(***************************************************************************)
(* The adapter model: runs of safeCall, one awaited step at a time.        *)
(***************************************************************************)
\* The adapter calls the source wraps in safeCall (lines 47, 148, 153, 214).
Funcs == {"loadMarkets", "fetchTicker", "fetchOrderBook"}

\* What an invocation of func can end with.
Outcomes(func) == {Ok(func), RateLimitExceeded, NetworkError}

SafeCallEnters(c) ==
  /\ sc[c].pc = "idle"
  /\ \E func \in Funcs : sc' = [sc EXCEPT ![c] = safeCallEnter(func)]
  /\ UNCHANGED <<exchangeMarkets, tickLimit, batchSize, engine, fill, fetch, scheduler>>

SafeCallFirstSettles(c) ==
  /\ sc[c].pc = "try"
  /\ \E outcome \in Outcomes(sc[c].func) :
       sc' = [sc EXCEPT ![c] = safeCallFirst(@, outcome)]
  /\ UNCHANGED <<exchangeMarkets, tickLimit, batchSize, engine, fill, fetch, scheduler>>

SafeCallBackoffElapses(c) ==
  /\ sc[c].pc = "backoff"
  /\ sc' = [sc EXCEPT ![c] = safeCallBackoff(@)]
  /\ UNCHANGED <<exchangeMarkets, tickLimit, batchSize, engine, fill, fetch, scheduler>>

SafeCallRetrySettles(c) ==
  /\ sc[c].pc = "retry"
  /\ \E outcome \in Outcomes(sc[c].func) :
       sc' = [sc EXCEPT ![c] = safeCallRetry(@, outcome)]
  /\ UNCHANGED <<exchangeMarkets, tickLimit, batchSize, engine, fill, fetch, scheduler>>

NextSafeCall ==
  \/ \E c \in Calls : SafeCallEnters(c)
  \/ \E c \in Calls : SafeCallFirstSettles(c)
  \/ \E c \in Calls : SafeCallBackoffElapses(c)
  \/ \E c \in Calls : SafeCallRetrySettles(c)

SpecSafeCall == Init /\ [][NextSafeCall]_vars

(***************************************************************************)
(* The universe model: universe discovery over the markets the venues can  *)
(* list.                                                                   *)
(***************************************************************************)
\* The markets objects a venue can answer loadMarkets with.
VenueMarkets ==
  {other \o btc \o eth :
     other \in {<<Market(BTC_USDC, TRUE, TRUE)>>, <<Market(USDT_DAI, TRUE, TRUE)>>,
                <<Market(BTC_USDT_SWAP, TRUE, TRUE)>>},
     btc \in {<<>>, <<Market(BTC_USDT, TRUE, TRUE)>>, <<Market(BTC_USDT, FALSE, TRUE)>>,
              <<Market(BTC_USDT, TRUE, FALSE)>>},
     eth \in {<<>>, <<Market(ETH_USDT, TRUE, TRUE)>>}}

InitUniverse ==
  /\ exchangeMarkets \in [Venues -> VenueMarkets]
  /\ tickLimit = MaxTicks
  /\ batchSize = ScanBatchSize
  /\ InitStore
  /\ InitScheduler
  /\ InitIdle

NextUniverse == startMultiSymbolPolling

SpecUniverse == InitUniverse /\ [][NextUniverse]_vars

(***************************************************************************)
(* The engine model: computeOpportunitiesFromAllData over the AllData the  *)
(* scheduler can hand it.                                                  *)
(***************************************************************************)
\* The order books a venue can answer with: the two of the scan model, one
\* whose best bid is above its best ask, and one with no asks.
EngineBooks ==
  {orderBookOf(Registry[1]), orderBookOf(Registry[2]),
   [bids |-> <<<<R(103, 1), R(1, 1)>>, <<R(101, 1), R(1, 1)>>>>,
    asks |-> <<<<R(100, 1), R(1, 8)>>, <<R(102, 1), R(1, 1)>>>>],
   [bids |-> <<<<R(101, 1), R(1, 1)>>>>, asks |-> <<>>]}

\* The symbolData objects poll can store for symbol from the books.
SymbolDatas(symbol, books) ==
  UNION {[vs -> {pairSnapshot(symbol, Market(symbol, TRUE, TRUE), tickerOf(Registry[1]), b)
                   : b \in books}]
           : vs \in (SUBSET Venues) \ {{}}}

EngineInputs ==
  {<<>>}
  \cup {<<[symbol |-> BTC_USDT, data |-> d]>> : d \in SymbolDatas(BTC_USDT, EngineBooks)}
  \cup {<<[symbol |-> BTC_USDT, data |-> d], [symbol |-> ETH_USDT, data |-> e]>> :
          d \in SymbolDatas(BTC_USDT, EngineBooks),
          e \in SymbolDatas(ETH_USDT, {orderBookOf(Registry[1])})}

InitEngine ==
  /\ exchangeMarkets = ScanMarkets
  /\ tickLimit = MaxTicks
  /\ batchSize = ScanBatchSize
  /\ InitStore
  /\ InitScheduler
  /\ sc = [c \in Calls |-> IdleCall]
  /\ \E allData \in EngineInputs :
       engine = [pc |-> "input", allData |-> allData, items |-> <<>>]
  /\ fill = IdleFill
  /\ fetch = [name \in FetchNames |-> IdleFetch]

\* Line 507.
EngineComputes ==
  /\ engine.pc = "input"
  /\ \E te \in ClockReads(now) :
       /\ engine' = [engine EXCEPT
                       !.pc = "computed",
                       !.items = computeOpportunitiesFromAllData(engine.allData,
                                                                 TRADE_SIZE_USDT, te)]
       /\ now' = te
  /\ UNCHANGED <<exchangeMarkets, tickLimit, batchSize, sc, fill, fetch, discovery, phase,
                 allSymbols, scanIndex, marketsCache, latestSnapshot,
                 latestOpportunities, ticks, nStarted, timerArmed, emitted,
                 lastEvent, httpResponse>>

NextEngine == EngineComputes

SpecEngine == InitEngine /\ [][NextEngine]_vars

(***************************************************************************)
(* The books model: the engine, run twice, over order books of several     *)
(* levels and over markets with limits and fees.                           *)
(***************************************************************************)
\* Order books a venue can answer with: deep ones around 100 and around 102,
\* one whose asks step up past its own bids, a thin one, one whose top levels
\* hold nothing, one whose asks step from 100 to 104, one that holds less than
\* the intended quantity, and one whose asks are not in price order.
DeepLow == [bids |-> <<<<R(99, 1), R(4, 1)>>>>, asks |-> <<<<R(100, 1), R(4, 1)>>>>]
DeepHigh == [bids |-> <<<<R(101, 1), R(4, 1)>>>>, asks |-> <<<<R(102, 1), R(4, 1)>>>>]

WideBooks ==
  {DeepLow, DeepHigh,
   [bids |-> <<<<R(103, 1), R(1, 8)>>, <<R(101, 1), R(1, 1)>>>>,
    asks |-> <<<<R(100, 1), R(1, 8)>>, <<R(102, 1), R(1, 1)>>>>],
   [bids |-> <<<<R(101, 1), R(1, 200)>>>>, asks |-> <<<<R(100, 1), R(1, 200)>>>>],
   [bids |-> <<<<R(102, 1), Zero>>, <<R(101, 1), R(1, 1)>>>>,
    asks |-> <<<<R(100, 1), Zero>>, <<R(101, 1), R(1, 1)>>>>],
   [bids |-> <<<<R(102, 1), R(1, 1)>>>>,
    asks |-> <<<<R(100, 1), R(1, 8)>>, <<R(104, 1), R(1, 1)>>>>],
   [bids |-> <<<<R(101, 1), R(1, 5)>>>>, asks |-> <<<<R(100, 1), R(1, 5)>>>>],
   [bids |-> <<<<R(99, 1), R(1, 1)>>>>,
    asks |-> <<<<R(100, 1), R(1, 8)>>, <<R(98, 1), R(1, 1)>>>>]}

\* The markets a venue can list for a symbol: without a taker fee, with a taker
\* fee of a hundredth, and with one limit or two on the amount or the cost of an
\* order.
LimitMarkets(symbol) ==
  {[Market(symbol, TRUE, TRUE) EXCEPT !.taker = Null],
   [Market(symbol, TRUE, TRUE) EXCEPT !.taker = R(1, 100)],
   [Market(symbol, TRUE, TRUE) EXCEPT !.limits.amount.min = R(1, 2)],
   [Market(symbol, TRUE, TRUE) EXCEPT !.limits.amount.max = R(1, 5)],
   [Market(symbol, TRUE, TRUE) EXCEPT !.limits.cost.min = R(30, 1)],
   [Market(symbol, TRUE, TRUE) EXCEPT !.limits.cost.max = R(20, 1)],
   [Market(symbol, TRUE, TRUE) EXCEPT !.limits.cost.min = R(10, 1),
                                      !.limits.cost.max = R(100, 1),
                                      !.limits.amount.min = Zero]}

\* The PairSnapshots fetchTradingPairData can return for symbol.
VenueSnapshots(symbol) ==
  {pairSnapshot(symbol, Market(symbol, TRUE, TRUE), tickerOf(Registry[1]), b)
     : b \in WideBooks}
  \cup {pairSnapshot(symbol, m, tickerOf(Registry[1]), b)
          : m \in LimitMarkets(symbol), b \in {DeepLow, DeepHigh}}

\* The symbolData objects poll can store from them.
WideSymbolDatas(symbol, snapshots) ==
  UNION {[vs -> snapshots] : vs \in (SUBSET Venues) \ {{}}}

\* ETH/USDT quoted as BTC/USDT can be, on every venue.
TieDatas ==
  {[v \in Venues |->
      pairSnapshot(ETH_USDT, Market(ETH_USDT, TRUE, TRUE), tickerOf(Registry[1]),
                   IF v = Registry[1] THEN b[1] ELSE b[2])]
     : b \in {<<DeepLow, DeepHigh>>, <<DeepHigh, DeepLow>>}}

BookInputs ==
  {<<[symbol |-> BTC_USDT, data |-> d]>>
     : d \in WideSymbolDatas(BTC_USDT, VenueSnapshots(BTC_USDT))}
  \cup {<<[symbol |-> BTC_USDT, data |-> d], [symbol |-> ETH_USDT, data |-> e]>>
          : d \in WideSymbolDatas(BTC_USDT, VenueSnapshots(BTC_USDT)), e \in TieDatas}

InitBooks ==
  /\ exchangeMarkets = ScanMarkets
  /\ tickLimit = MaxTicks
  /\ batchSize = ScanBatchSize
  /\ InitStore
  /\ InitScheduler
  /\ sc = [c \in Calls |-> IdleCall]
  /\ fill = IdleFill
  /\ fetch = [name \in FetchNames |-> IdleFetch]
  /\ \E allData \in BookInputs :
       engine = [pc |-> "input", allData |-> allData, items |-> <<>>,
                 previous |-> <<>>]

\* Line 507 again, on the same allData at a later time.
EngineRecomputes ==
  /\ engine.pc = "computed"
  /\ \E te \in ClockReads(now) :
       /\ engine' = [engine EXCEPT
                       !.pc = "recomputed",
                       !.previous = engine.items,
                       !.items = computeOpportunitiesFromAllData(engine.allData,
                                                                 TRADE_SIZE_USDT, te)]
       /\ now' = te
  /\ UNCHANGED <<exchangeMarkets, tickLimit, batchSize, sc, fill, fetch, discovery, phase,
                 allSymbols, scanIndex, marketsCache, latestSnapshot,
                 latestOpportunities, ticks, nStarted, timerArmed, emitted,
                 lastEvent, httpResponse>>

NextBooks ==
  \/ EngineComputes
  \/ EngineRecomputes

SpecBooks == InitBooks /\ [][NextBooks]_vars

(***************************************************************************)
(* The cursor model: the first lines of poll (477-484), invocation after   *)
(* invocation, over universes and batch sizes of several lengths.  ticks   *)
(* is the sequence of the locals the invocations started with.             *)
(***************************************************************************)
\* The universes discovery can return, by length.
CursorSymbols ==
  <<BTC_USDT, ETH_USDT, <<"SOL", "/", "USDT">>, <<"XRP", "/", "USDT">>,
    <<"ADA", "/", "USDT">>, <<"LTC", "/", "USDT">>>>

InitCursor ==
  /\ exchangeMarkets = ScanMarkets
  /\ tickLimit = MaxCursorTicks
  /\ batchSize \in 1..MaxCursorBatch
  /\ InitStore
  /\ InitIdle
  /\ phase = "polling"
  /\ discovery = [v \in Venues |-> "value"]
  /\ \E len \in 1..MaxUniverse : allSymbols = SubSeq(CursorSymbols, 1, len)
  /\ scanIndex = 0
  /\ marketsCache = [v \in Venues |-> Unset]
  /\ ticks = <<>>
  /\ nStarted = 0
  /\ timerArmed = TRUE
  /\ now = 0
  /\ emitted = [t \in Ticks |-> 0]
  /\ lastEvent = Null
  /\ httpResponse = Null

\* An invocation of poll takes its batch and moves the cursor.
PollStarts ==
  /\ nStarted < tickLimit
  /\ nStarted' = nStarted + 1
  /\ ticks' = Append(ticks, pollEnter(scanIndex, Len(allSymbols)))
  /\ scanIndex' = scanIndexAfter(scanIndex, Len(allSymbols))
  /\ UNCHANGED <<environment, discovery, phase, allSymbols, marketsCache,
                 latestSnapshot, latestOpportunities, timerArmed, now, emitted,
                 lastEvent, httpResponse>>

NextCursor == PollStarts

SpecCursor == InitCursor /\ [][NextCursor]_vars

(***************************************************************************)
(* The fill model: estimateFillPrice over the level lists and quantities   *)
(* the engine can hand it.                                                 *)
(***************************************************************************)
\* The levels of a side as fetchTradingPairData builds them (lines 157-158);
\* an amount the venue left out is null.
FillLevels ==
  {Level(p, a) : p \in {R(100, 1), R(102, 1)}, a \in {Null, Zero, R(1, 8), R(1, 1)}}

FillLevelLists == UNION {[1..n -> FillLevels] : n \in 0..MaxLevels}

\* tradeSizeUSDT / buyAsk for the quantities of interest.
FillQuantities == {R(1, 8), R(1, 4), R(5, 4)}

InitFill ==
  /\ exchangeMarkets = ScanMarkets
  /\ tickLimit = MaxTicks
  /\ batchSize = ScanBatchSize
  /\ InitStore
  /\ InitScheduler
  /\ sc = [c \in Calls |-> IdleCall]
  /\ engine = [pc |-> "input", allData |-> <<>>, items |-> <<>>]
  /\ \E levels \in FillLevelLists : \E qty \in FillQuantities :
       fill = [pc |-> "input", levels |-> levels, qty |-> qty, result |-> NoFill]
  /\ fetch = [name \in FetchNames |-> IdleFetch]

\* Lines 326-327: one call of estimateFillPrice.
EstimateFill ==
  /\ fill.pc = "input"
  /\ fill' = [fill EXCEPT !.pc = "done",
                          !.result = estimateFillPrice(fill.levels, fill.qty)]
  /\ UNCHANGED <<exchangeMarkets, tickLimit, batchSize, sc, engine, fetch, scheduler>>

NextFill == EstimateFill

SpecFill == InitFill /\ [][NextFill]_vars

(***************************************************************************)
(* The fetch model: one call of fetchTradingPairData, followed by the      *)
(* store of lines 493-500, over every way its adapter calls can end.       *)
(***************************************************************************)
BTC_DAI == <<"BTC", "/", "DAI">>

\* Markets that are active and spot, inactive, not spot, and neither.
FetchMarkets ==
  [v \in Venues |->
     <<Market(BTC_USDT, TRUE, TRUE), Market(ETH_USDT, FALSE, TRUE),
       Market(BTC_USDT_SWAP, TRUE, FALSE), Market(BTC_DAI, FALSE, FALSE)>>]

\* The symbols asked for: those of FetchMarkets and one no venue lists.
FetchSymbols == {BTC_USDT, ETH_USDT, BTC_USDT_SWAP, BTC_DAI, BTC_USDC}

\* The order books a venue answers with: both sides, or a side with no level.
FetchBooks(name) ==
  {orderBookOf(name),
   [orderBookOf(name) EXCEPT !.bids = <<>>],
   [orderBookOf(name) EXCEPT !.asks = <<>>],
   [bids |-> <<>>, asks |-> <<>>]}

FetchAnswers(name) ==
  [markets : Settlements(IF name \in Venues THEN FetchMarkets[name] ELSE <<>>),
   ticker : Settlements(tickerOf(name)),
   orderBook : UNION {Settlements(book) : book \in FetchBooks(name)}]

FetchInput(symbol, entry, answers) ==
  [IdleFetch EXCEPT !.pc = "input", !.symbol = symbol, !.entry = entry,
                    !.cache = entry, !.answers = answers]

InitFetch ==
  /\ exchangeMarkets = FetchMarkets
  /\ tickLimit = MaxTicks
  /\ batchSize = ScanBatchSize
  /\ InitStore
  /\ InitScheduler
  /\ sc = [c \in Calls |-> IdleCall]
  /\ engine = [pc |-> "idle", allData |-> <<>>, items |-> <<>>]
  /\ fill = IdleFill
  /\ \E name \in FetchNames : \E symbol \in FetchSymbols :
     \E entry \in {Unset, Loaded, Empty} : \E answers \in FetchAnswers(name) :
       fetch = [n \in FetchNames |->
                  IF n = name THEN FetchInput(symbol, entry, answers) ELSE IdleFetch]

\* Lines 493-500: one call of fetchTradingPairData and what poll keeps of it.
FetchRuns(name) ==
  /\ fetch[name].pc = "input"
  /\ \E run \in {fetchTradingPairData(name, fetch[name].symbol, fetch[name].entry,
                                        fetch[name].answers)} :
       fetch' = [fetch EXCEPT ![name] =
                   [@ EXCEPT !.pc = "done", !.cache = run.cache, !.calls = run.calls,
                             !.thrown = run.thrown, !.returned = run.returned,
                             !.symbolData = symbolDataAfter(EmptyMap, name, run)]]
  /\ UNCHANGED <<exchangeMarkets, tickLimit, batchSize, sc, engine, fill, scheduler>>

NextFetch == \E name \in FetchNames : FetchRuns(name)

SpecFetch == InitFetch /\ [][NextFetch]_vars

(***************************************************************************)
(* The tick model: the calls of one poll invocation for one symbol, one    *)
(* per venue (lines 489-505), then the engine (line 507).  Each venue      *)
(* lists the symbol as tradable and answers every call, or departs from    *)
(* that in one way.                                                        *)
(***************************************************************************)
TickSymbol == BTC_USDT

TickMarketLists ==
  {<<Market(TickSymbol, TRUE, TRUE)>>, <<Market(TickSymbol, FALSE, TRUE)>>,
   <<Market(TickSymbol, TRUE, FALSE)>>, <<>>}

\* A venue: the markets it lists and how its adapter calls end.
TickVenues(name) ==
  LET fine == [list |-> <<Market(TickSymbol, TRUE, TRUE)>>,
               answers |-> [markets |-> settled(safeCall(<<Ok(<<Market(TickSymbol, TRUE, TRUE)>>)>>)),
                            ticker |-> settled(safeCall(<<Ok(tickerOf(name))>>)),
                            orderBook |-> settled(safeCall(<<Ok(orderBookOf(name))>>))]]
  IN  {fine}
      \cup {[fine EXCEPT !.list = list,
                         !.answers.markets = settled(safeCall(<<Ok(list)>>))] :
              list \in TickMarketLists}
      \cup {[fine EXCEPT !.answers.markets = a] : a \in Settlements(fine.list)}
      \cup {[fine EXCEPT !.answers.ticker = a] : a \in Settlements(tickerOf(name))}
      \cup {[fine EXCEPT !.answers.orderBook = a] :
              a \in UNION {Settlements(book) : book \in FetchBooks(name)}}

TickEnvironments ==
  {e \in [Venues -> UNION {TickVenues(v) : v \in Venues}] :
     \A v \in Venues : e[v] \in TickVenues(v)}

InitTick ==
  /\ tickLimit = MaxTicks
  /\ batchSize = ScanBatchSize
  /\ InitStore
  /\ InitScheduler
  /\ sc = [c \in Calls |-> IdleCall]
  /\ engine = [pc |-> "idle", allData |-> <<>>, items |-> <<>>]
  /\ fill = IdleFill
  /\ \E e \in TickEnvironments :
       /\ exchangeMarkets = [v \in Venues |-> e[v].list]
       /\ fetch = [n \in FetchNames |->
                     IF n \in Venues THEN FetchInput(TickSymbol, Unset, e[n].answers)
                     ELSE IdleFetch]

\* symbolData after the calls for the first k venues of scanExchanges.
RECURSIVE symbolDataUpTo(_, _)
symbolDataUpTo(k, runs) ==
  IF k = 0 THEN EmptyMap
  ELSE symbolDataAfter(symbolDataUpTo(k - 1, runs), scanExchanges[k],
                       runs[scanExchanges[k]])

\* Lines 489-505 for a batch of one symbol: allData goes to the engine.
TickFetches ==
  /\ engine.pc = "idle"
  /\ \A v \in Venues : fetch[v].pc = "input"
  /\ \E runs \in {[v \in Venues |->
                      fetchTradingPairData(v, fetch[v].symbol, fetch[v].entry,
                                           fetch[v].answers)]} :
       /\ fetch' = [n \in FetchNames |->
                      IF n \in Venues
                      THEN [fetch[n] EXCEPT
                              !.pc = "done", !.cache = runs[n].cache,
                              !.calls = runs[n].calls, !.thrown = runs[n].thrown,
                              !.returned = runs[n].returned,
                              !.symbolData = symbolDataAfter(EmptyMap, n, runs[n])]
                      ELSE fetch[n]]
       /\ engine' = [pc |-> "input", items |-> <<>>,
                     allData |-> allDataAfter(<<>>, TickSymbol,
                                              symbolDataUpTo(Len(scanExchanges), runs))]
  /\ UNCHANGED <<exchangeMarkets, tickLimit, batchSize, sc, fill, scheduler>>

NextTick == TickFetches \/ EngineComputes

SpecTick == InitTick /\ [][NextTick]_vars

(***************************************************************************)
(* The registry model: the service with SCAN_EXCHANGES set to the venues   *)
(* of the model and one more venue in the registry, which lists both       *)
(* symbols at universe discovery.                                          *)
(***************************************************************************)
RestSymbols == <<BTC_USDT, ETH_USDT>>

InitRegistry ==
  /\ exchangeMarkets = ScanMarkets
  /\ tickLimit = MaxBatchTicks
  /\ batchSize = ScanBatchSize
  /\ InitStore
  /\ InitScheduler
  /\ InitIdle

NextRegistry ==
  \/ startMultiSymbolPollingAmong(RestSymbols)
  \/ TimerFires
  \/ \E t \in Ticks : LoadMarketsSettles(t)
  \/ \E t \in Ticks : FetchTickerSettles(t)
  \/ \E t \in Ticks : FetchOrderBookSettles(t)

SpecRegistry == InitRegistry /\ [][NextRegistry]_vars

(***************************************************************************)
(* The properties the specification states, each under the model named.    *)
(***************************************************************************)
Running == {t \in Ticks : ticks[t].pc = "running"}
Done == {t \in Ticks : ticks[t].pc = "done"}

SnapshotAnswered == httpResponse # Null /\ httpResponse.endpoint = "snapshot"
OpportunitiesAnswered == httpResponse # Null /\ httpResponse.endpoint = "opportunities"

\* C1 (Spec): ticks never overlap -- at no time are two invocations of poll in
\* progress at once.
C1_TicksNeverOverlap == Cardinality(Running) <= 1

\* C2 (SpecSafeCall): safeCall never propagates an exception to its caller --
\* whatever the outcomes of the underlying call, the retry's included, a run
\* ends with the call's value or with null.
C2_SafeCallNeverThrows == \A c \in Calls : sc[c].pc # "thrown"

\* C3 (SpecLive): every started tick eventually publishes and emits its one
\* opportunityUpdate, whichever of its pair fetches end in an error outcome
\* or throw, provided every adapter call eventually returns or throws.
C3_EveryTickPublishes ==
  \A t \in Ticks : (ticks[t].pc = "running") ~> (ticks[t].pc = "done" /\ emitted[t] = 1)

\* Tick 2 has published an empty AllData: none of its pair fetches succeeded.
C3_Witness ==
  /\ ticks[2].pc = "done" /\ emitted[2] = 1
  /\ latestSnapshot.data = Ref(2) /\ allDataAt(ticks, Ref(2)) = <<>>

\* C4 (SpecBatch): publication atomicity -- the value getLatestSnapshot
\* returns is the initial empty value or the allData of a finished tick, the
\* snapshot endpoint answers with the allData of a finished tick, and the
\* object the store refers to is not written to any more.
C4_PublicationAtomicity ==
  /\ [](/\ latestSnapshot.data # Null => latestSnapshot.data.ref \in Done
        /\ (SnapshotAnswered /\ httpResponse.status = 200)
             => \E t \in Done : httpResponse.body.data = ticks[t].allData)
  /\ [][\A t \in Ticks :
          (latestSnapshot.data = Ref(t) /\ latestSnapshot'.data = Ref(t))
            => ticks'[t].allData = ticks[t].allData]_vars

\* A read is answered with a finished tick's AllData while a running tick
\* holds a partially filled allData of its own.
C4_Witness ==
  /\ SnapshotAnswered /\ httpResponse.status = 200
  /\ \E t \in Running : /\ ticks[t].allData # <<>>
                        /\ ticks[t].si <= ticks[t].end - ticks[t].start
                        /\ ticks[t].allData # httpResponse.body.data

\* C5 (Spec): GET opportunities answers 503 in every state in which no tick
\* has published an opportunity set.
C5_OpportunitiesNotReady ==
  (OpportunitiesAnswered /\ Done = {}) => httpResponse.status = 503

\* C6 (Spec): GET snapshot answers 503 exactly while no tick has published,
\* and {timestamp, data} of the store after that, an empty AllData included.
C6_SnapshotReadiness ==
  SnapshotAnswered =>
    /\ httpResponse.status = 503 <=> Done = {}
    /\ httpResponse.status # 503 =>
         /\ httpResponse.status = 200
         /\ httpResponse.body = [timestamp |-> latestSnapshot.timestamp,
                                 data |-> allDataAt(ticks, latestSnapshot.data)]
         /\ httpResponse.body.timestamp # Null

\* The snapshot endpoint answers 200 with an empty published AllData.
C6_Witness ==
  /\ SnapshotAnswered /\ httpResponse.status = 200
  /\ httpResponse.body.data = <<>>

\* a <= b for timestamps, null before every time.
StampLe(a, b) == a = Null \/ (b # Null /\ a.ms <= b.ms)

\* C7 (Spec): over any sequence of publications the stored snapshot
\* timestamp and the stored opportunities timestamp never decrease, and the
\* snapshot timestamp of a publication is <= its opportunities timestamp.
C7_TimestampsMonotone ==
  [][/\ StampLe(latestSnapshot.timestamp, latestSnapshot'.timestamp)
     /\ StampLe(latestOpportunities.timestamp, latestOpportunities'.timestamp)
     /\ latestSnapshot'.timestamp # Null
          => StampLe(latestSnapshot'.timestamp, latestOpportunities'.timestamp)]_vars

\* Tick 2 has published after tick 3, which started later, and the clock has
\* advanced.
C7_Witness ==
  /\ ticks[3].pc = "done" /\ latestSnapshot.data = Ref(2)
  /\ latestSnapshot.timestamp = Ms(MaxClock)

\* C8 (Spec): a tick that completes emits exactly one opportunityUpdate, in
\* the step that writes the store, with the whole list the store then holds
\* as payload; no other step emits.
C8_OneUpdatePerTick ==
  [][/\ \A t \in Ticks : emitted'[t] = IF ticks'[t].pc = "done" THEN 1 ELSE 0
     /\ \A t \in Ticks :
          (ticks[t].pc = "running" /\ ticks'[t].pc = "done")
            => /\ latestSnapshot'.data = Ref(t)
               /\ lastEvent' = [event |-> "opportunityUpdate",
                                payload |-> latestOpportunities'.items]
     /\ (\A t \in Ticks : ticks'[t].pc = "done" => ticks[t].pc = "done")
          => lastEvent' = lastEvent]_vars

\* The third tick has published a non-empty list after the first one had
\* published.
C8_Witness ==
  /\ {1, 3} \subseteq Done /\ latestSnapshot.data = Ref(3)
  /\ lastEvent # Null /\ lastEvent.payload # <<>>
  /\ lastEvent.payload = latestOpportunities.items

\* The venues whose markets loaded at discovery and that list symbol as an
\* active spot market.
Carriers(symbol) ==
  {v \in Venues :
     /\ discovery[v] = "value"
     /\ \E i \in 1..Len(exchangeMarkets[v]) :
          /\ exchangeMarkets[v][i].symbol = symbol
          /\ exchangeMarkets[v][i].active
          /\ exchangeMarkets[v][i].spot}

Listed == UNION {{exchangeMarkets[v][i].symbol : i \in 1..Len(exchangeMarkets[v])}
                   : v \in Venues}

C10_NoSelfArbitrage ==
  \A i \in 1..Len(engine.items) :
    engine.items[i].buyExchange # engine.items[i].sellExchange

\* The engine has produced opportunities from an AllData in which a venue's
\* own best bid is above its own best ask.
C10_Witness ==
  /\ engine.pc = "computed" /\ engine.items # <<>>
  /\ \E v \in Venues :
       /\ v \in DOMAIN engine.allData[1].data
       /\ LET ob == engine.allData[1].data[v].orderbook
          IN  /\ ob.asks # <<>> /\ ob.bids # <<>>
              /\ RLt(ob.asks[1].price, ob.bids[1].price)

\* The symbolData the engine was given for a symbol.
DataOf(symbol) == (CHOOSE e \in Range(engine.allData) : e.symbol = symbol).data

\* The spread, in percent of the buy price, between two effective prices.
EffectiveSpreadPct(buyEffective, sellEffective) ==
  RMul(RDiv(RSub(sellEffective, buyEffective), buyEffective), R(100, 1))

SymbolIndex(symbol) ==
  CHOOSE k \in 1..Len(engine.allData) : engine.allData[k].symbol = symbol
PairIndex(buyEx, sellEx) ==
  CHOOSE k \in 1..Len(venuePairs) : venuePairs[k] = <<buyEx, sellEx>>
ProductionRank(o) ==
  SymbolIndex(o.symbol) * (Len(venuePairs) + 1) + PairIndex(o.buyExchange, o.sellExchange)

\* C12: the engine's list is non-increasing in spreadPct, and opportunities of
\* equal spreadPct are in the order in which the engine produced them.
C12_SortedAndStable ==
  \A i \in 1..Len(engine.items) : \A j \in 1..Len(engine.items) :
    i < j =>
      /\ RLe(engine.items[j].spreadPct, engine.items[i].spreadPct)
      /\ engine.items[i].spreadPct = engine.items[j].spreadPct =>
           ProductionRank(engine.items[i]) < ProductionRank(engine.items[j])

\* The engine has returned a list in which two opportunities share a spreadPct
\* and a third has another one.
C12_Witness ==
  /\ engine.pc = "computed"
  /\ \E i \in 1..Len(engine.items) : \E j \in 1..Len(engine.items) :
       \E k \in 1..Len(engine.items) :
         /\ i < j /\ engine.items[i].spreadPct = engine.items[j].spreadPct
         /\ engine.items[k].spreadPct # engine.items[i].spreadPct

\* C13: a second run of the engine on the same AllData and configuration, made
\* at a later time, returns the list of the first run, equal in every field of
\* every opportunity, ts included, and in order.
C13_Determinism ==
  engine.pc = "recomputed" => engine.items = engine.previous

\* The taker fee of a PairSnapshot, a missing one counted as 0.
TakerOf(snapshot) == IF snapshot.fees.taker = Null THEN Zero ELSE snapshot.fees.taker

\* C14: for every emitted opportunity, netProfitAbs is spreadAbs * quantity
\* less the taker fees of both legs (quantity * buyEffective * takerBuy +
\* quantity * sellEffective * takerSell, a missing taker fee counted as 0, no
\* network fee), and netProfitPct is netProfitAbs / (buyEffective * quantity)
\* * 100.
C14_ProfitConsistency ==
  \A i \in 1..Len(engine.items) :
    LET o == engine.items[i]
        takerBuy == TakerOf(DataOf(o.symbol)[o.buyExchange])
        takerSell == TakerOf(DataOf(o.symbol)[o.sellExchange])
        fees == RAdd(RMul(RMul(o.quantity, o.buyEffective), takerBuy),
                     RMul(RMul(o.quantity, o.sellEffective), takerSell))
    IN  /\ o.netProfitAbs = RSub(RMul(o.spreadAbs, o.quantity), fees)
        /\ o.netProfitPct =
             RMul(RDiv(o.netProfitAbs, RMul(o.buyEffective, o.quantity)), R(100, 1))
        /\ o.fees.networkAbs = Zero

\* The engine has emitted an opportunity that buys on a venue without a taker
\* fee and sells on one that charges a fee.
C14_Witness ==
  /\ engine.pc = "computed"
  /\ \E i \in 1..Len(engine.items) :
       LET o == engine.items[i]
       IN  /\ DataOf(o.symbol)[o.buyExchange].fees.taker = Null
           /\ RLt(Zero, TakerOf(DataOf(o.symbol)[o.sellExchange]))
           /\ RLt(Zero, o.fees.tradingAbs)
           /\ RLt(o.netProfitAbs, RMul(o.spreadAbs, o.quantity))

\* The levels' prices never fall (rise = TRUE) or never rise from one level
\* to the next.
PriceOrdered(levels, rise) ==
  \A k \in 1..(Len(levels) - 1) :
    IF rise THEN RLe(levels[k].price, levels[k + 1].price)
    ELSE RLe(levels[k + 1].price, levels[k].price)

\* C15: for every emitted opportunity whose buy venue's asks are in
\* non-decreasing price order and whose sell venue's bids are in non-increasing
\* price order, buyEffective is at least buyPrice, the top ask, and
\* sellEffective is at most sellPrice, the top bid.
C15_EffectivePriceBounds ==
  \A i \in 1..Len(engine.items) :
    LET o == engine.items[i]
        asks == DataOf(o.symbol)[o.buyExchange].orderbook.asks
        bids == DataOf(o.symbol)[o.sellExchange].orderbook.bids
    IN  PriceOrdered(asks, TRUE) /\ PriceOrdered(bids, FALSE) =>
          /\ o.buyPrice = asks[1].price /\ RLe(o.buyPrice, o.buyEffective)
          /\ o.sellPrice = bids[1].price /\ RLe(o.sellEffective, o.sellPrice)

\* The engine has emitted an opportunity whose buy venue's top ask holds
\* nothing, so that the fill comes from the level behind it at a higher price,
\* and whose sell fill walks past the top bid.
C15_Witness ==
  /\ engine.pc = "computed"
  /\ \E i \in 1..Len(engine.items) :
       LET o == engine.items[i]
           asks == DataOf(o.symbol)[o.buyExchange].orderbook.asks
           bids == DataOf(o.symbol)[o.sellExchange].orderbook.bids
       IN  /\ PriceOrdered(asks, TRUE) /\ PriceOrdered(bids, FALSE)
           /\ asks[1].amount = Zero /\ RLt(o.buyPrice, o.buyEffective)
           /\ Len(bids) = 2 /\ RLt(o.sellEffective, o.sellPrice)

\* The amount of a level, a missing one counted as 0.
AmountOf(level) == IF Truthy(level.amount) THEN level.amount ELSE Zero

\* The amount the first k levels hold together.
RECURSIVE AmountUpTo(_, _)
AmountUpTo(levels, k) ==
  IF k = 0 THEN Zero ELSE RAdd(AmountUpTo(levels, k - 1), AmountOf(levels[k]))

\* What a walk for qty takes from level i: what is still missing before it,
\* up to the level's amount.
SliceOf(levels, i, qty) ==
  IF RLe(qty, AmountUpTo(levels, i - 1)) THEN Zero
  ELSE RMin(AmountOf(levels[i]), RSub(qty, AmountUpTo(levels, i - 1)))

\* The cost of the slices of the first k levels.
RECURSIVE CostUpTo(_, _, _)
CostUpTo(levels, k, qty) ==
  IF k = 0 THEN Zero
  ELSE RAdd(CostUpTo(levels, k - 1, qty),
            RMul(levels[k].price, SliceOf(levels, k, qty)))

\* C16 (SpecFill): order-book walk law -- estimateFillPrice fills
\* min(qty, total amount of the levels); when the first k levels hold at
\* least qty it fills qty exactly, and the effective price is the cost of the
\* slices of those k levels divided by qty.
C16_OrderBookWalkLaw ==
  fill.pc = "done" =>
    /\ fill.result.filled = RMin(fill.qty, AmountUpTo(fill.levels, Len(fill.levels)))
    /\ \A k \in 1..Len(fill.levels) :
         RLe(fill.qty, AmountUpTo(fill.levels, k)) =>
           /\ fill.result.filled = fill.qty
           /\ fill.result.effectivePrice =
                RDiv(CostUpTo(fill.levels, k, fill.qty), fill.qty)

\* The first level holds less than qty, the first two hold more, and a third
\* level at another price is left untouched.
C16_Witness ==
  /\ fill.pc = "done" /\ Len(fill.levels) = 3
  /\ RLt(Zero, AmountOf(fill.levels[1])) /\ RLt(AmountOf(fill.levels[1]), fill.qty)
  /\ RLt(fill.qty, AmountUpTo(fill.levels, 2))
  /\ fill.levels[1].price # fill.levels[2].price
  /\ fill.levels[3].price # fill.levels[2].price /\ RLt(Zero, AmountOf(fill.levels[3]))
  /\ fill.result.filled = fill.qty

\* The opportunities listed for a symbol bought on buyEx and sold on sellEx.
ItemsOf(symbol, buyEx, sellEx) ==
  {i \in 1..Len(engine.items) :
     /\ engine.items[i].symbol = symbol
     /\ engine.items[i].buyExchange = buyEx
     /\ engine.items[i].sellExchange = sellEx}

\* A limit that is present holds: lo <= x when it is a minimum, x <= hi when
\* it is a maximum.
Within(lo, x, hi) ==
  /\ Truthy(lo) => RLe(lo, x)
  /\ Truthy(hi) => RLe(x, hi)

\* Buying on buy and selling on sell has top-of-book on both sides, a positive
\* fill, and passes the spread, notional and limit gates.
Admitted(buy, sell) ==
  LET asks == buy.orderbook.asks
      bids == sell.orderbook.bids
  IN  /\ asks # <<>> /\ bids # <<>>
      /\ Truthy(asks[1].price) /\ Truthy(bids[1].price)
      /\ LET qty == RDiv(R(TRADE_SIZE_USDT, 1), asks[1].price)
             buyFill == estimateFillPrice(asks, qty)
             sellFill == estimateFillPrice(bids, qty)
             quantity == RMin(buyFill.filled, sellFill.filled)
         IN  /\ RLt(Zero, quantity)
             /\ RLt(R(MIN_RAW_SPREAD_PCT, 1),
                    EffectiveSpreadPct(buyFill.effectivePrice, sellFill.effectivePrice))
             /\ RLe(R(MIN_TRADE_USDT, 1), RMul(buyFill.effectivePrice, quantity))
             /\ Within(buy.limits.minAmount, quantity, buy.limits.maxAmount)
             /\ Within(sell.limits.minAmount, quantity, sell.limits.maxAmount)
             /\ Within(buy.limits.minCost, RMul(buyFill.effectivePrice, quantity),
                       buy.limits.maxCost)
             /\ Within(sell.limits.minCost, RMul(sellFill.effectivePrice, quantity),
                       sell.limits.maxCost)

\* C17: for every symbol of AllData and every ordered pair of distinct
\* registry venues that both have a snapshot for it, the list holds exactly one
\* opportunity if the pair has top-of-book on both sides, a positive fill, and
\* passes the spread, notional and limit gates, and none otherwise; it holds
\* nothing else, so no two opportunities share (symbol, buyExchange,
\* sellExchange).
C17_OrderedPairing ==
  engine.pc # "input" =>
    /\ \A k \in 1..Len(engine.allData) : \A b \in Venues : \A s \in Venues :
         LET e == engine.allData[k]
         IN  Cardinality(ItemsOf(e.symbol, b, s)) =
               IF /\ b # s /\ b \in DOMAIN e.data /\ s \in DOMAIN e.data
                  /\ Admitted(e.data[b], e.data[s])
               THEN 1 ELSE 0
    /\ \A i \in 1..Len(engine.items) :
         \E k \in 1..Len(engine.allData) :
           engine.allData[k].symbol = engine.items[i].symbol

\* The engine has emitted both directions of a pair of venues for one symbol
\* and only one direction of a pair for another.
C17_Witness ==
  /\ engine.pc = "computed" /\ Len(engine.allData) = 2
  /\ \E b \in Venues : \E s \in Venues :
       /\ b # s
       /\ ItemsOf(engine.allData[1].symbol, b, s) # {}
       /\ ItemsOf(engine.allData[1].symbol, s, b) # {}
  /\ \E b \in Venues : \E s \in Venues :
       /\ b # s
       /\ ItemsOf(engine.allData[2].symbol, b, s) # {}
       /\ ItemsOf(engine.allData[2].symbol, s, b) = {}

\* C19: for every emitted opportunity, estimates.confidenceScore lies in
\* [0, 1] and every field of the risk block is at least 0.
C19_ScoreAndRiskRanges ==
  \A i \in 1..Len(engine.items) :
    LET o == engine.items[i]
    IN  /\ RLe(Zero, o.estimates.confidenceScore)
        /\ RLe(o.estimates.confidenceScore, One)
        /\ RLe(Zero, o.risk.marketVolatility)
        /\ RLe(Zero, o.risk.executionRisk)
        /\ RLe(Zero, o.risk.liquidityRisk)
        /\ RLe(Zero, o.risk.feeRisk)

\* The engine has emitted an opportunity with more than ten times its
\* quantity in the books and fees above nine tenths of its gross profit.
C19_Witness ==
  /\ engine.pc = "computed"
  /\ \E i \in 1..Len(engine.items) :
       LET o == engine.items[i]
       IN  /\ RLt(RMul(o.quantity, R(10, 1)), o.liquidity)
           /\ RLt(R(9, 10), o.risk.feeRisk)
           /\ RLt(Zero, o.estimates.confidenceScore)
           /\ RLt(o.estimates.confidenceScore, One)
           /\ o.risk.liquidityRisk = Zero

\* C18: an entry of the Markets Cache, once set, is never replaced, also when
\* two callers load the same venue before the first load has returned.
C18_MarketsCacheWriteOnce ==
  [][\A v \in DOMAIN marketsCache :
       marketsCache[v] # Unset => marketsCache'[v] = marketsCache[v]]_vars

\* C20: in every state between two tasks of the event loop, the stored
\* opportunity items are the engine's output for the data of the stored
\* snapshot (nothing before the first publication), also while poll
\* invocations overlap.
C20_StoreConsistency ==
  IF latestSnapshot.data = Null THEN latestOpportunities.items = <<>>
  ELSE \E computed \in {computeOpportunitiesFromAllData(
                           allDataAt(ticks, latestSnapshot.data), TRADE_SIZE_USDT, 0)} :
         \E te \in 0..MaxClock : latestOpportunities.items = stamped(computed, te)

\* A poll invocation has published a snapshot with opportunities after
\* another one published a different result, and a third is still running.
C20_Witness ==
  \E t \in Ticks : \E u \in Ticks : \E w \in Ticks :
    /\ latestSnapshot.data = Ref(t) /\ latestOpportunities.items # <<>>
    /\ u # t /\ ticks[u].pc = "done" /\ emitted[u] > 0
    /\ w # t /\ ticks[w].pc = "running"

\* The number of poll invocations of a cycle: ceil(len / batchSize).
CycleLength == (Len(allSymbols) + batchSize - 1) \div batchSize

\* The invocations that took the symbol at position p (1-based) among those
\* from the i-th on that make one cycle.
TakenBy(i, p) ==
  {j \in i..(i + CycleLength - 1) : ticks[j].start < p /\ p <= ticks[j].end}

\* C21: the batches of any ceil(len / batchSize) consecutive poll invocations
\* of which the first found scanIndex = 0 are contiguous and take every symbol
\* of the universe exactly once, and leave scanIndex at 0.
C21_RoundRobinCoverage ==
  \A i \in 1..Len(ticks) :
    ticks[i].start = 0 /\ i + CycleLength - 1 <= Len(ticks) =>
      /\ \A j \in i..(i + CycleLength - 2) : ticks[j + 1].start = ticks[j].end
      /\ \A p \in 1..Len(allSymbols) : Cardinality(TakenBy(i, p)) = 1
      /\ IF i + CycleLength - 1 = Len(ticks) THEN scanIndex = 0
         ELSE ticks[i + CycleLength].start = 0

\* Two whole cycles of two invocations each have been made over a universe
\* the batch size does not divide.
C21_Witness ==
  /\ Len(ticks) = 4 /\ CycleLength = 2 /\ Len(allSymbols) % batchSize # 0
  /\ scanIndex = 0

\* C22: whenever poll is invoked the cursor is a position of the universe,
\* the batch taken is not empty and has at most batchSize symbols, and no two
\* invocations less than a cycle apart, concurrent or not, take the batch
\* that starts at the same position.
C22_CursorInvariant ==
  phase = "polling" =>
    /\ scanIndex \in 0..(Len(allSymbols) - 1)
    /\ \A t \in 1..nStarted :
         /\ ticks[t].start \in 0..(Len(allSymbols) - 1)
         /\ ticks[t].start < ticks[t].end /\ ticks[t].end <= Len(allSymbols)
         /\ ticks[t].end - ticks[t].start <= batchSize
    /\ \A t \in 1..nStarted : \A u \in 1..nStarted :
         t < u /\ u - t < CycleLength => ticks[t].start # ticks[u].start

\* Two invocations of poll less than a cycle apart are in progress at once,
\* the later one started while the earlier one was waiting for a venue.
C22_Witness ==
  \E t \in Running : \E u \in Running :
    /\ t < u /\ u - t < CycleLength
    /\ ticks[t].await # "none" /\ ticks[u].await # "none"
    /\ ticks[u].start = scanIndexAfter(ticks[t].start, Len(allSymbols))

\* C23: a run of safeCall invokes the underlying function at most twice; the
\* second invocation is made only after the first failed with a rate-limit
\* error, once, when the wait is over; a first failure of any other class
\* ends the run with null and no second invocation.
C23_AtMostOneRetry ==
  \A c \in Calls :
    /\ sc[c].calls <= 2
    /\ sc[c].calls = 2 => sc[c].failure = "RateLimitExceeded"
    /\ sc[c].pc = "backoff" => sc[c].calls = 1
    /\ sc[c].failure = "RateLimitExceeded" /\ sc[c].pc # "backoff" => sc[c].calls = 2
    /\ sc[c].failure \notin {"none", "RateLimitExceeded"} =>
         sc[c].pc = "returned" /\ sc[c].result = Null /\ sc[c].calls = 1

\* One run has ended after a retry that followed a rate-limit error, another
\* has ended with null after a network error.
C23_Witness ==
  \E c \in Calls : \E e \in Calls :
    /\ sc[c].pc \in {"returned", "thrown"} /\ sc[c].calls = 2
    /\ sc[e].pc = "returned" /\ sc[e].failure = "NetworkError"

\* The position in scanExchanges of a venue, and in the batch of poll
\* invocation t of a symbol.
VenueIndex(v) == CHOOSE k \in 1..Len(scanExchanges) : scanExchanges[k] = v
BatchIndex(t, symbol) ==
  CHOOSE k \in 1..Len(batchOf(allSymbols, ticks[t])) :
    batchOf(allSymbols, ticks[t])[k] = symbol

\* The poll invocations whose allData object is the published snapshot.
Published == {t \in Ticks : latestSnapshot.data = Ref(t)}

\* C24: the published snapshot holds an entry for (symbol, venue) only if the
\* fetchTradingPairData call of that poll invocation for the pair neither
\* returned an error outcome nor threw, and the entry has its price and
\* orderbook blocks and no error field; it holds a symbol only with at least
\* one venue under it.
C24_SnapshotHoldsSuccessesOnly ==
  \A t \in Published :
    \A i \in 1..Len(ticks[t].allData) :
      LET e == ticks[t].allData[i]
      IN  /\ DOMAIN e.data # {}
          /\ \A v \in DOMAIN e.data :
               /\ <<BatchIndex(t, e.symbol), VenueIndex(v)>> \notin ticks[t].failed
               /\ {"price", "orderbook"} \subseteq DOMAIN e.data[v]
               /\ "error" \notin DOMAIN e.data[v]

\* A snapshot is published in which a symbol has the entry of one venue, the
\* call for the other venue having failed.
C24_Witness ==
  \E t \in Published :
    /\ ticks[t].failed # {}
    /\ \E i \in 1..Len(ticks[t].allData) :
         \E v \in DOMAIN ticks[t].allData[i].data :
           \E w \in Venues \ DOMAIN ticks[t].allData[i].data :
             <<BatchIndex(t, ticks[t].allData[i].symbol), VenueIndex(w)>> \in ticks[t].failed

\* The calls of fetchTradingPairData that have ended.
Fetched == {name \in FetchNames : fetch[name].pc = "done"}

\* C25: every entry poll stores has a level on both sides of its order book
\* and a bestBid and a bestAsk that are not null: a call whose order book has
\* a side with no level is not stored.
C25_TopOfBookPresent ==
  \A name \in Fetched :
    \A v \in DOMAIN fetch[name].symbolData :
      LET orderbook == fetch[name].symbolData[v].orderbook
      IN  /\ orderbook.bids # <<>> /\ orderbook.asks # <<>>
          /\ orderbook.bestBid # Null /\ orderbook.bestAsk # Null

\* markets[symbol] of the markets object the call for name looked the symbol
\* up in, and the error kind the call returned ("none" for a snapshot).
LookedUp(name) ==
  marketOf(cachedMarkets(fetch[name].cache, name), fetch[name].symbol)
ErrorOf(name) ==
  IF "error" \in DOMAIN fetch[name].returned THEN fetch[name].returned.error
  ELSE "none"

\* The first check of the order of C26 that fails for the call for name.
FirstFailing(name) ==
  IF name \notin Venues THEN "ExchangeNotSupported"
  ELSE IF LookedUp(name) = Null THEN "UnknownSymbol"
  ELSE IF ~LookedUp(name).active THEN "Inactive"
  ELSE IF ~LookedUp(name).spot THEN "NotSpot"
  ELSE IF fetch[name].answers.ticker.result = Null THEN "TickerUnavailable"
  ELSE IF fetch[name].answers.orderBook.result = Null THEN "OrderBookUnavailable"
  ELSE "none"

HasEntry(v) ==
  \E k \in 1..Len(engine.allData) :
    engine.allData[k].symbol = TickSymbol /\ v \in DOMAIN engine.allData[k].data

\* Venue v does not list TickSymbol as an active spot market, or its call of
\* this tick returned an error outcome or threw.
Unavailable(v) ==
  \/ marketError(exchangeMarkets[v], TickSymbol) # "none"
  \/ fetch[v].thrown
  \/ ErrorOf(v) # "none"

LoadsMarkets(v) ==
  \E t \in Running : ticks[t].await = "loadMarkets" /\ scanExchanges[ticks[t].vi] = v

\* Venue v has an entry in the published snapshot.
InSnapshot(v) ==
  \E t \in Published : \E i \in 1..Len(ticks[t].allData) :
    v \in DOMAIN ticks[t].allData[i].data

\* C28: once the first loadMarkets for a venue has ended with null, loadMarkets
\* is not called for the venue again, the cache never holds its markets, and
\* the venue is in no snapshot.
C28_NullLoadIsFinal ==
  \A v \in Venues :
    discovery[v] = "null" =>
      /\ ~LoadsMarkets(v)
      /\ marketsCache[v] # Loaded
      /\ ~InSnapshot(v)

\* C29: universe discovery goes through the markets cache: once
\* getUSDTSpotSymbols has the markets of a venue the cache holds them, and
\* after its loadMarkets call for a venue no poll calls loadMarkets for that
\* venue again.
C29_UniverseReadsCache ==
  \A v \in Venues :
    /\ discovery[v] = "value" => marketsCache[v] = Loaded
    /\ discovery[v] # "pending" => ~LoadsMarkets(v)

\* The venues whose loadMarkets of universe discovery returned markets that
\* list symbol as an active USDT spot market.
Listing(symbol) ==
  {v \in Venues : /\ discovery[v] = "value"
                  /\ symbol \in Range(usdtSpotFilter(exchangeMarkets[v]))}

\* Universe discovery is over and found no symbol on two venues.
EmptyUniverse ==
  /\ \A v \in Venues : discovery[v] # "pending"
  /\ \A v \in Venues : \A i \in 1..Len(exchangeMarkets[v]) :
       Cardinality(Listing(exchangeMarkets[v][i].symbol)) < 2

\* C30: when universe discovery finds no symbol, exceptions of its calls
\* included, the scanner has stopped for good: poll is never invoked, no
\* adapter call of a pair fetch is made, the store keeps its initial value, no
\* opportunityUpdate is emitted and the universe holds no symbol.
C30_EmptyUniverseDoesNothing ==
  EmptyUniverse =>
    /\ phase = "aborted"
    /\ allSymbols = <<>>
    /\ nStarted = 0 /\ ~timerArmed
    /\ \A t \in Ticks : ticks[t] = IdleTick /\ emitted[t] = 0
    /\ \A v \in Venues : marketsCache[v] = Unset
    /\ latestSnapshot = [timestamp |-> Null, data |-> Null]
    /\ latestOpportunities = [timestamp |-> Null, items |-> <<>>]
    /\ lastEvent = Null

\* Discovery ended with an exception for one venue, polling was given up, and
\* the snapshot endpoint has been read since.
C30_Witness ==
  /\ EmptyUniverse
  /\ phase = "aborted"
  /\ \E v \in Venues : discovery[v] = "thrown"
  /\ SnapshotAnswered

\* The trading fees of buying on buy and selling on sell exceed the gross
\* profit of the quantity both sides fill.
FeesExceedGross(buy, sell) ==
  LET asks == buy.orderbook.asks
      bids == sell.orderbook.bids
      qty == RDiv(R(TRADE_SIZE_USDT, 1), asks[1].price)
      buyFill == estimateFillPrice(asks, qty)
      sellFill == estimateFillPrice(bids, qty)
      quantity == RMin(buyFill.filled, sellFill.filled)
      fees == RAdd(RMul(RMul(quantity, buyFill.effectivePrice), orZero(buy.fees.taker)),
                   RMul(RMul(quantity, sellFill.effectivePrice), orZero(sell.fees.taker)))
  IN  RLt(RMul(RSub(sellFill.effectivePrice, buyFill.effectivePrice), quantity), fees)

\* C31: the engine has no net-profit gate: a pairing that passes the spread,
\* notional and limit gates and whose trading fees exceed its gross profit is
\* emitted, with netProfitAbs < 0 and netProfitPct < 0.
C31_NoNetProfitGate ==
  engine.pc # "input" =>
    \A k \in 1..Len(engine.allData) : \A b \in Venues : \A s \in Venues :
      LET e == engine.allData[k]
      IN  /\ b # s /\ b \in DOMAIN e.data /\ s \in DOMAIN e.data
          /\ Admitted(e.data[b], e.data[s])
          /\ FeesExceedGross(e.data[b], e.data[s])
          => /\ ItemsOf(e.symbol, b, s) # {}
             /\ \A i \in ItemsOf(e.symbol, b, s) :
                  /\ RLt(engine.items[i].netProfitAbs, Zero)
                  /\ RLt(engine.items[i].netProfitPct, Zero)

\* The engine has emitted an opportunity whose trading fees are more than its
\* gross profit.
C31_Witness ==
  /\ engine.pc = "computed"
  /\ \E i \in 1..Len(engine.items) :
       /\ RLt(RMul(engine.items[i].spreadAbs, engine.items[i].quantity),
              engine.items[i].fees.tradingAbs)
       /\ RLt(engine.items[i].netProfitAbs, Zero)

(***************************************************************************)
(* The listing-order model: the batch model over venues whose markets      *)
(* objects list the two symbols in either order.                           *)
(***************************************************************************)
\* The markets objects of a venue: Object.keys follows the order in which
\* the venue's answer lists its markets.
ListingOrders ==
  {<<Market(BTC_USDT, TRUE, TRUE), Market(ETH_USDT, TRUE, TRUE)>>,
   <<Market(ETH_USDT, TRUE, TRUE), Market(BTC_USDT, TRUE, TRUE)>>}

MaxOrderTicks == 1

InitOrder ==
  /\ exchangeMarkets \in [Venues -> ListingOrders]
  /\ tickLimit = MaxOrderTicks
  /\ batchSize = WideBatchSize
  /\ InitStore
  /\ InitScheduler
  /\ InitIdle

\* The service up to the end of its first poll, the one startMultiSymbolPolling
\* awaits before it arms the timer (line 521).
NextOrder ==
  \/ startMultiSymbolPolling
  \/ \E t \in Ticks : LoadMarketsSettles(t)
  \/ \E t \in Ticks : FetchTickerSettles(t)
  \/ \E t \in Ticks : FetchOrderBookSettles(t)

SpecOrder == InitOrder /\ [][NextOrder]_vars

\* The symbols of the model in alphabetical order, and the place of a symbol
\* in it.
Alphabet == <<BTC_DAI, BTC_USDC, BTC_USDT, BTC_USDT_SWAP, ETH_USDT, USDT_DAI>>
AlphabetIndex(symbol) == CHOOSE k \in 1..Len(Alphabet) : Alphabet[k] = symbol

\* C32 (SpecOrder): the universe walked by scanIndex is in alphabetical order,
\* and two published opportunities of equal spreadPct are in alphabetical
\* order of their symbols, then in registry order of their buy venues, then
\* of their sell venues.
C32_AlphabeticalOrder ==
  /\ \A i \in 1..Len(allSymbols) : \A j \in 1..Len(allSymbols) :
       i < j => AlphabetIndex(allSymbols[i]) < AlphabetIndex(allSymbols[j])
  /\ \A i \in 1..Len(latestOpportunities.items) :
       \A j \in 1..Len(latestOpportunities.items) :
         LET a == latestOpportunities.items[i]
             b == latestOpportunities.items[j]
         IN  i < j /\ a.spreadPct = b.spreadPct =>
               \/ AlphabetIndex(a.symbol) < AlphabetIndex(b.symbol)
               \/ /\ a.symbol = b.symbol
                  /\ PairIndex(a.buyExchange, a.sellExchange)
                       < PairIndex(b.buyExchange, b.sellExchange)

\* C33 (SpecTick): risk.marketVolatility of an emitted opportunity is the
\* absolute difference of the changePercent stored in the price blocks of
\* its buy and sell PairSnapshots, so it is not zero when they differ.
C33_VolatilityFromSnapshots ==
  \A i \in 1..Len(engine.items) :
    LET o == engine.items[i]
        buy == DataOf(o.symbol)[o.buyExchange].price.changePercent
        sell == DataOf(o.symbol)[o.sellExchange].price.changePercent
    IN  /\ o.risk.marketVolatility = RAbs(RSub(buy, sell))
        /\ buy # sell => o.risk.marketVolatility # Zero

\* No level of the books of a symbol's snapshots has a negative amount.
NonNegativeAmounts(symbol) ==
  \A v \in DOMAIN DataOf(symbol) :
    LET ob == DataOf(symbol)[v].orderbook
    IN  /\ \A k \in 1..Len(ob.asks) : ob.asks[k].amount # Null => RLe(Zero, ob.asks[k].amount)
        /\ \A k \in 1..Len(ob.bids) : ob.bids[k].amount # Null => RLe(Zero, ob.bids[k].amount)

\* The amounts of the levels, added up.
RECURSIVE AmountSum(_)
AmountSum(levels) ==
  IF levels = <<>> THEN Zero
  ELSE RAdd(IF levels[1].amount = Null THEN Zero ELSE levels[1].amount,
            AmountSum(Tail(levels)))

\* C34: for every emitted opportunity whose books have no negative amount,
\* 0 < quantity <= tradeSizeUSDT / buyPrice, and quantity <= liquidity, the
\* lesser of the amounts on the buy venue's asks and on the sell venue's bids;
\* so liquidityRisk never comes from the branch that sets it to 1: it is at
\* most 1 - 1/5.
C34_QuantityBounded ==
  \A i \in 1..Len(engine.items) :
    LET o == engine.items[i]
    IN  NonNegativeAmounts(o.symbol) =>
          /\ RLt(Zero, o.quantity)
          /\ RLe(o.quantity, RDiv(R(TRADE_SIZE_USDT, 1), o.buyPrice))
          /\ o.buyLiquidity = AmountSum(DataOf(o.symbol)[o.buyExchange].orderbook.asks)
          /\ o.sellLiquidity = AmountSum(DataOf(o.symbol)[o.sellExchange].orderbook.bids)
          /\ o.liquidity = RMin(o.buyLiquidity, o.sellLiquidity)
          /\ RLe(o.quantity, o.liquidity)
          /\ RLe(o.risk.liquidityRisk, R(4, 5))

\* The engine has emitted an opportunity that fills over two levels of the
\* asks and takes all the bids there are, less than intended.
C34_Witness ==
  /\ engine.pc = "computed"
  /\ \E i \in 1..Len(engine.items) :
       LET o == engine.items[i]
           asks == DataOf(o.symbol)[o.buyExchange].orderbook.asks
       IN  /\ Len(asks) > 1 /\ RLt(asks[1].amount, o.quantity)
           /\ o.quantity = o.liquidity
           /\ RLt(o.quantity, RDiv(R(TRADE_SIZE_USDT, 1), o.buyPrice))

(***************************************************************************)
(* The quotes model: the engine over one symbol quoted on both venues,     *)
(* with books that are uncrossed and ordered by price as well as books     *)
(* that are not.                                                           *)
(***************************************************************************)
\* Books with best ask >= best bid, asks rising and bids falling: locked,
\* with two levels, with a thin side, at a higher price.
QuoteBooks ==
  {[bids |-> <<<<R(100, 1), R(1, 8)>>, <<R(98, 1), R(1, 1)>>>>,
    asks |-> <<<<R(100, 1), R(1, 8)>>, <<R(103, 1), R(1, 1)>>>>],
   [bids |-> <<<<R(102, 1), R(1, 8)>>, <<R(99, 1), R(1, 1)>>>>,
    asks |-> <<<<R(102, 1), R(1, 8)>>, <<R(102, 1), R(1, 1)>>>>],
   [bids |-> <<<<R(101, 1), R(1, 200)>>>>, asks |-> <<<<R(101, 1), R(4, 1)>>>>],
   [bids |-> <<<<R(100, 1), R(4, 1)>>>>, asks |-> <<<<R(100, 1), R(4, 1)>>>>],
   [bids |-> <<<<R(104, 1), R(4, 1)>>>>, asks |-> <<<<R(105, 1), R(4, 1)>>>>],
   [bids |-> <<<<R(99, 1), R(4, 1)>>>>, asks |-> <<<<R(100, 1), R(9, 40)>>>>],
   [bids |-> <<<<R(99, 1), R(1, 1)>>>>,
    asks |-> <<<<R(100, 1), R(1, 8)>>, <<R(105, 1), R(1, 8)>>>>]}

QuoteInputs ==
  {<<[symbol |-> BTC_USDT,
      data |-> [v \in Venues |->
                  pairSnapshot(BTC_USDT, Market(BTC_USDT, TRUE, TRUE),
                               tickerOf(v), books[v])]]>>
     : books \in [Venues -> QuoteBooks \cup WideBooks]}

InitQuotes ==
  /\ exchangeMarkets = ScanMarkets
  /\ tickLimit = MaxTicks
  /\ batchSize = ScanBatchSize
  /\ InitStore
  /\ InitScheduler
  /\ sc = [c \in Calls |-> IdleCall]
  /\ fill = IdleFill
  /\ fetch = [name \in FetchNames |-> IdleFetch]
  /\ \E allData \in QuoteInputs :
       engine = [pc |-> "input", allData |-> allData, items |-> <<>>,
                 previous |-> <<>>]

NextQuotes == EngineComputes \/ EngineRecomputes

SpecQuotes == InitQuotes /\ [][NextQuotes]_vars

\* The book of a PairSnapshot is uncrossed (best ask >= best bid), its asks
\* do not fall and its bids do not rise.
Uncrossed(snapshot) ==
  LET ob == snapshot.orderbook
  IN  /\ ob.bestAsk # Null /\ ob.bestBid # Null
      /\ RLe(ob.bestBid, ob.bestAsk)
      /\ \A k \in 1..(Len(ob.asks) - 1) : RLe(ob.asks[k].price, ob.asks[k + 1].price)
      /\ \A k \in 1..(Len(ob.bids) - 1) : RLe(ob.bids[k + 1].price, ob.bids[k].price)

\* C35 (SpecQuotes): when the books of two venues are uncrossed, with asks
\* that do not fall and bids that do not rise, the engine does not emit both
\* directions between them for one symbol (minRawSpreadPct is 0).
C35_OneDirection ==
  engine.pc # "input" =>
    \A k \in 1..Len(engine.allData) : \A a \in Venues : \A b \in Venues :
      LET e == engine.allData[k]
      IN  /\ a # b /\ a \in DOMAIN e.data /\ b \in DOMAIN e.data
          /\ Uncrossed(e.data[a]) /\ Uncrossed(e.data[b])
          => ~(ItemsOf(e.symbol, a, b) # {} /\ ItemsOf(e.symbol, b, a) # {})

\* The engine has emitted one direction between two venues with uncrossed,
\* ordered books, the bought side filled over two levels.
C35_Witness ==
  /\ engine.pc = "computed"
  /\ \E i \in 1..Len(engine.items) :
       LET o == engine.items[i]
           buy == DataOf(o.symbol)[o.buyExchange]
           sell == DataOf(o.symbol)[o.sellExchange]
       IN  /\ Uncrossed(buy) /\ Uncrossed(sell)
           /\ RLt(buy.orderbook.asks[1].amount, o.quantity)
           /\ ItemsOf(o.symbol, o.sellExchange, o.buyExchange) = {}

(***************************************************************************)
(* The debug model: the engine with ARB_DEBUG set, over one symbol that    *)
(* one venue or both have a snapshot of.                                   *)
(***************************************************************************)
\* Books with no asks, and with nothing to take on either side.
EmptyAsks == [bids |-> <<<<R(101, 1), R(1, 1)>>>>, asks |-> <<>>]
NothingToTake == [bids |-> <<<<R(101, 1), Zero>>>>, asks |-> <<<<R(100, 1), Zero>>>>]

DebugSnapshots ==
  VenueSnapshots(BTC_USDT)
  \cup {pairSnapshot(BTC_USDT, Market(BTC_USDT, TRUE, TRUE), tickerOf(Registry[1]), b)
          : b \in {EmptyAsks, NothingToTake}}

DebugInputs ==
  {<<[symbol |-> BTC_USDT, data |-> d]>>
     : d \in WideSymbolDatas(BTC_USDT, DebugSnapshots)}

InitDebug ==
  /\ exchangeMarkets = ScanMarkets
  /\ tickLimit = MaxTicks
  /\ batchSize = ScanBatchSize
  /\ InitStore
  /\ InitScheduler
  /\ sc = [c \in Calls |-> IdleCall]
  /\ fill = IdleFill
  /\ fetch = [name \in FetchNames |-> IdleFetch]
  /\ \E allData \in DebugInputs :
       engine = [pc |-> "input", allData |-> allData, items |-> <<>>,
                 log |-> NoCounters]

\* Line 507 with ARB_DEBUG set: the list, and the line of lines 438-440.
EngineLogs ==
  /\ engine.pc = "input"
  /\ \E te \in ClockReads(now) :
       /\ engine' = [engine EXCEPT
                       !.pc = "computed",
                       !.items = computeOpportunitiesFromAllData(engine.allData,
                                                                 TRADE_SIZE_USDT, te),
                       !.log = debugCounters(engine.allData, TRADE_SIZE_USDT, te)]
       /\ now' = te
  /\ UNCHANGED <<exchangeMarkets, tickLimit, batchSize, sc, fill, fetch, discovery, phase,
                 allSymbols, scanIndex, marketsCache, latestSnapshot,
                 latestOpportunities, ticks, nStarted, timerArmed, emitted,
                 lastEvent, httpResponse>>

NextDebug == EngineLogs

SpecDebug == InitDebug /\ [][NextDebug]_vars

\* The ordered pairs of distinct registry venues that both have a snapshot,
\* over the symbols the engine was given.
PairsWithData ==
  {<<k, p>> \in (1..Len(engine.allData)) \X (1..Len(venuePairs)) :
     /\ venuePairs[p][1] \in DOMAIN engine.allData[k].data
     /\ venuePairs[p][2] \in DOMAIN engine.allData[k].data}

\* C36 (SpecDebug): the debug counters partition the pairings the engine
\* looked at: pairsChecked, the number of ordered pairs of venues that both
\* have a snapshot, is the number of opportunities emitted plus
\* pairsMissingOB, pairsInsufficientFill, pairsBelowSpread, pairsBelowNotional
\* and pairsLimitsFail.
C36_CountersPartition ==
  engine.pc = "computed" =>
    /\ engine.log.pairsChecked = Cardinality(PairsWithData)
    /\ engine.log.pairsChecked =
         Len(engine.items) + engine.log.pairsMissingOB
         + engine.log.pairsInsufficientFill + engine.log.pairsBelowSpread
         + engine.log.pairsBelowNotional + engine.log.pairsLimitsFail

\* The engine has looked at two pairings, emitted one and counted the other
\* as below the spread.
C36_Witness ==
  /\ engine.pc = "computed"
  /\ engine.log.pairsChecked = 2
  /\ Len(engine.items) = 1
  /\ engine.log.pairsBelowSpread = 1

\* The symbols of the batch poll invocation t took.
BatchSymbols(t) == Range(batchOf(allSymbols, ticks[t]))

\* C37: a publication replaces the store with what its own tick fetched:
\* every symbol of the published snapshot and of the published opportunity
\* list is in the batch of the poll invocation that published them, and
\* neither covers more than batchSize symbols.
C37_StoreHoldsOneBatch ==
  \A t \in Published :
    /\ \A i \in 1..Len(ticks[t].allData) : ticks[t].allData[i].symbol \in BatchSymbols(t)
    /\ \A i \in 1..Len(latestOpportunities.items) :
         latestOpportunities.items[i].symbol \in BatchSymbols(t)
    /\ Len(ticks[t].allData) <= batchSize
    /\ Cardinality({latestOpportunities.items[i].symbol :
                      i \in 1..Len(latestOpportunities.items)}) <= batchSize

\* The second poll invocation has published its batch, ETH/USDT, over the
\* first one's, BTC/USDT, and the store holds an opportunity.
C37_Witness ==
  /\ Published = {2}
  /\ ticks[1].pc = "done"
  /\ BatchSymbols(1) = {BTC_USDT} /\ BatchSymbols(2) = {ETH_USDT}
  /\ latestOpportunities.items # <<>>

\* C38: publications happen in the order in which the poll invocations took
\* their batches: an invocation that has published leaves none that started
\* before it unpublished, and the store holds the snapshot of the last
\* started of the invocations that have finished.
C38_PublishInStartOrder ==
  /\ \A a \in Ticks : \A b \in Ticks :
       a < b /\ ticks[b].pc = "done" => ticks[a].pc = "done"
  /\ \A t \in Published : \A u \in Done : u <= t

====
